---- MODULE Spec2Model ----
(***************************************************************************)
(* A model of plasmapy.formulary.collisions: the impact-parameter engine   *)
(* (impact_parameter, impact_parameter_perp, _boilerPlate,                 *)
(* _replaceNanVwithThermalV) and the Coulomb-logarithm engine              *)
(* (Coulomb_logarithm), coupling_parameter and collision_frequency, and of *)
(* plasmapy.diagnostics.thomson.spectral_density: the conditioning of its  *)
(* arguments, the normalisation of its vectors and its densities.          *)
(*                                                                         *)
(* Numbers.  TLA+ has integers only, so physical quantities are carried in *)
(* model units chosen so that the arithmetic of the code is exact:         *)
(*   - a Quantity is a record [arr, v]: arr says whether it is an array,   *)
(*     v holds its elements (a scalar has one);                            *)
(*   - an element that may be not-a-number is a record [nan, x];           *)
(*   - the lengths the code takes square roots of are carried as their     *)
(*     squares (suffix 2): sqrt(x^2 + y^2) is then the exact sum;          *)
(*   - ln_Lambda is carried in half units, rounded down:                   *)
(*     LnFloor(n, d) = floor(ln(n / d)) = floor(2 * (0.5 * ln(n / d))),    *)
(*     so the thresholds 0, 1, 2 and 4 of the code are 0, 2, 4 and 8 and   *)
(*     every comparison against them is exact.                             *)
(* All array arguments of one call have the same length (1..MaxLen).       *)
(***************************************************************************)
EXTENDS Integers, Sequences, FiniteSets, TLC

VARIABLES pc, fn, args, out

vars == <<pc, fn, args, out>>

\* ------------------------------------------------------------- bounds
\* longest array argument of a call
MaxLen == 2

\* ------------------------------------------------------- Quantities
Scalar(x) == [arr |-> FALSE, v |-> <<x>>]

Array(s) == [arr |-> TRUE, v |-> s]

\* np.isscalar(q.value)
isscalar(q) == ~q.arr

\* element i of q under numpy broadcasting (a scalar repeats)
Elem(q, i) == IF q.arr THEN q.v[i] ELSE q.v[1]

\* length of the broadcast of x and y
BLen(x, y) == IF x.arr THEN Len(x.v) ELSE Len(y.v)

\* elementwise binary operation with broadcasting
Map2(Op(_, _), x, y) ==
    [arr |-> x.arr \/ y.arr,
     v   |-> [i \in 1..BLen(x, y) |-> Op(Elem(x, i), Elem(y, i))]]

\* elementwise unary operation
Map1(Op(_), x) == [arr |-> x.arr, v |-> [i \in 1..Len(x.v) |-> Op(x.v[i])]]

\* np.any(P(q))
AnyElem(P(_), q) == \E i \in 1..Len(q.v) : P(q.v[i])

\* elements that may be not-a-number
Num(x) == [nan |-> FALSE, x |-> x]

NaN == [nan |-> TRUE, x |-> 0]

\* np.isnan
isnan(e) == e.nan

\* the V argument: None, or a Quantity of elements that may be NaN
NoneV == [none |-> TRUE, arr |-> FALSE, v |-> <<NaN>>]

SomeV(q) == [none |-> FALSE, arr |-> q.arr, v |-> q.v]

\* ---------------------------------------------------------- integers
Max(a, b) == IF a >= b THEN a ELSE b

\* floor of the square root
Isqrt(n) == CHOOSE r \in 0..n : r * r <= n /\ (r + 1) * (r + 1) > n

\* floor of the cube root
Icbrt(n) == CHOOSE r \in 0..n : r * r * r <= n /\ (r + 1) * (r + 1) * (r + 1) > n

\* e^k as the fraction ExpNum[k+1] / ExpDen[k+1], k = 0..11
ExpNum == <<1, 27183, 73891, 200855, 545982, 148413, 403429, 109663, 298096, 810308, 220265, 598741>>

ExpDen == <<1, 10000, 10000, 10000, 10000, 1000, 1000, 100, 100, 100, 10, 10>>

\* x / y >= e^k, for k in 0..11
ExpLe(k, x, y) == x * ExpDen[k + 1] >= ExpNum[k + 1] * y

\* np.log(n / d) in whole units, rounded down, for n, d > 0 (exact for every
\* n, d the inputs of this model produce): the largest k with e^k <= n / d;
\* for n < d it is -k for the least k with d / n <= e^k
LnFloor(n, d) ==
    IF n >= d
    THEN CHOOSE k \in 0..10 : ExpLe(k, n, d) /\ ~ExpLe(k + 1, n, d)
    ELSE -(CHOOSE k \in 1..10 : d * ExpDen[k + 1] <= ExpNum[k + 1] * n
                                /\ d * ExpDen[k] > ExpNum[k] * n)

\* --------------------------------------------- constants (model units)
\* reduced Planck constant
hbar == 64

\* speed of light
c == 100

\* e^2 / (4 pi eps0), the numerator of the closest-approach distance
CoulombK == 64

\* eps0 k_B / e^2, the factor of the squared Debye length
DebyeK == 4096

\* (3 / (4 pi))^(2/3), the factor of the squared ion-sphere radius
WignerK == 4096

\* ------------------------------------------------------ collaborators
\* particles.Particle: mass in units of half an electron mass
mass(p) == CASE p = "e-" -> 2 [] p = "e+" -> 2 [] p = "p+" -> 3672 [] p = "n" -> 3677
               [] OTHER -> 7344

\* particles.Particle: |charge| in units of e; the neutron n has none
charge(p) == CASE p = "e-" -> 1 [] p = "e+" -> 1 [] p = "p+" -> 1 [] p = "n" -> 0
                 [] OTHER -> 2

\* particles.reduced_mass, rounded to the nearest unit
reduced_mass(species) ==
    LET m1 == mass(species[1])
        m2 == mass(species[2])
    IN  (2 * m1 * m2 + (m1 + m2)) \div (2 * (m1 + m2))

\* parameters.thermal_speed(T, "e-", mass=m): sqrt(2 k_B T / m), elementwise
thermal_speed(T, m) ==
    LET vth(t) == Num(Isqrt((2 * t) \div m)) IN Map1(vth, T)

\* parameters.Debye_length(T, n_e) squared: eps0 k_B T / (n_e e^2)
Debye_length2(T, n_e) ==
    LET f(t, n) == (DebyeK * t) \div n IN Map2(f, T, n_e)

\* quantum.Wigner_Seitz_radius(n_i) squared, n_i = n_e / z_mean carried as
\* the fraction n / z: (3 / (4 pi n_i))^(2/3)
Wigner_Seitz_radius2(n_e, z_mean) ==
    LET f(n) == (WignerK * Icbrt(z_mean.x) * Icbrt(z_mean.x)) \div (Icbrt(n) * Icbrt(n))
    IN  Map1(f, n_e)

\* decorators.checks._check_relativistic: some |V| is c or more
IsRelativistic(V) ==
    LET fast(e) == e.x >= c \/ e.x <= -c IN AnyElem(fast, V)

\* ------------------------------------------------------------ outcomes
NoValue == Scalar(0)

\* the same for a velocity
NoV == Scalar(NaN)

\* a raised exception: its class and the raise statement it comes from
Raise(kind, site) == [err |-> kind, site |-> site]

NoError == Raise("none", "none")

\* ----------------------------------------- _replaceNanVwithThermalV
\* np.any(V == 0)
AnyZero(V) ==
    LET zero(e) == ~e.nan /\ e.x = 0 IN ~V.none /\ AnyElem(zero, V)

\* V[np.isnan(V)] = th, th broadcast against V (the scalar-T branch)
SetNanScalarT(V, th) ==
    [arr |-> V.arr, v |-> [i \in 1..Len(V.v) |-> IF isnan(V.v[i]) THEN th.v[1] ELSE V.v[i]]]

\* a variant of SetNanArrayT: every unset entry gets the thermal speed of the
\* first temperature
SetNanArrayFirstT(V, th) ==
    [arr |-> V.arr, v |-> [i \in 1..Len(V.v) |-> IF isnan(V.v[i]) THEN th.v[1] ELSE V.v[i]]]

\* V = V.copy(); V[np.isnan(V)] = thermal_speed(T[np.isnan(V)])
SetNanArrayT(V, th) ==
    [arr |-> V.arr, v |-> [i \in 1..Len(V.v) |-> IF isnan(V.v[i]) THEN th.v[i] ELSE V.v[i]]]

\* the velocity it returns, once V == 0 is excluded; th is the thermal speed
\* thermal_speed(T, "e-", mass=m)
ReplacedV(V, T, th) ==
    IF V.none THEN th
    ELSE IF AnyElem(isnan, V)
    THEN IF isscalar(V) \/ isscalar(T)
         THEN IF isscalar(T) THEN SetNanScalarT(IF isscalar(V) THEN th ELSE V, th)
              ELSE th
         ELSE SetNanArrayT(V, th)
    ELSE [arr |-> V.arr, v |-> V.v]

\* a variant of replaceNanVwithThermalV: a zero entry counts as unset and is
\* replaced by the thermal speed
replaceNanVwithThermalV_zero_unset(V, T, m) ==
    [exc |-> NoError,
     V   |-> ReplacedV([V EXCEPT !.v = [i \in 1..Len(V.v) |->
                                          IF ~V.v[i].nan /\ V.v[i].x = 0 THEN NaN
                                                                          ELSE V.v[i]]],
                       T, thermal_speed(T, m))]

replaceNanVwithThermalV(V, T, m) ==
    IF AnyZero(V)
    THEN [exc |-> Raise("PhysicsError", "zero_velocity"), V |-> NoV]
    ELSE [exc |-> NoError, V |-> ReplacedV(V, T, thermal_speed(T, m))]

\* ------------------------------------------------------- _boilerPlate
\* its last two statements: the relativistic check of the velocity r that
\* _replaceNanVwithThermalV gave, and the return
boilerPlateReturn(charges, mu, r) ==
    IF r.exc.err # "none"
    THEN [exc |-> r.exc, charges |-> charges, reduced_mass |-> mu, V |-> NoV]
    ELSE IF IsRelativistic(r.V)
    THEN [exc |-> Raise("RelativityError", "relativistic"),
          charges |-> charges, reduced_mass |-> mu, V |-> NoV]
    ELSE [exc |-> NoError, charges |-> charges, reduced_mass |-> mu, V |-> r.V]

boilerPlate(T, species, V) ==
    boilerPlateReturn(<<charge(species[1]), charge(species[2])>>,
                      reduced_mass(species),
                      replaceNanVwithThermalV(V, T, reduced_mass(species)))

\* ---------------------------------------------- impact_parameter_perp
\* bPerp for the charges, reduced mass and velocity b of _boilerPlate
bPerpOf(b) ==
    LET f(e) == (CoulombK * b.charges[1] * b.charges[2]) \div (b.reduced_mass * e.x * e.x)
    IN  IF b.exc.err # "none"
        THEN [exc |-> b.exc, bPerp |-> NoValue]
        ELSE [exc |-> NoError, bPerp |-> Map1(f, b.V)]

impact_parameter_perp(T, species, V) == bPerpOf(boilerPlate(T, species, V))

\* ---------------------------------------------------- impact_parameter
\* a variant of NeedsZMean: the alias GMS-6 left out of the check
NeedsZMeanWithoutAlias == {"ls_full_interp", "GMS-2", "hls_max_interp", "GMS-5", "hls_full_interp"}

\* a variant of NeedsZMean: hls_min_interp and GMS-4 checked as well
NeedsZMeanAllHyperbolic == {"ls_full_interp", "GMS-2", "hls_max_interp", "GMS-5", "hls_full_interp",
                            "GMS-6", "hls_min_interp", "GMS-4"}

\* the methods that need the ion density, hence z_mean
NeedsZMean == {"ls_full_interp", "GMS-2", "hls_max_interp", "GMS-5", "hls_full_interp", "GMS-6"}

\* a variant of ClassicalBmin: the comparison of the first elements decides
\* for the whole array
ClassicalBminByFirst(bPerp, lambdaBroglie) ==
    IF bPerp.v[1] > lambdaBroglie.v[1] THEN bPerp ELSE lambdaBroglie

\* the classical bmin: the larger of bPerp and lambdaBroglie.  The scalar
\* comparison is tried first (it also succeeds for arrays of one element);
\* for longer arrays it raises and the masked assignment is used.
ClassicalBmin(bPerp, lambdaBroglie) ==
    IF Len(bPerp.v) <= 1
    THEN IF bPerp.v[1] > lambdaBroglie.v[1] THEN bPerp ELSE lambdaBroglie
    ELSE [arr |-> lambdaBroglie.arr,
          v   |-> [i \in 1..Len(lambdaBroglie.v) |->
                      IF bPerp.v[i] > lambdaBroglie.v[i] THEN bPerp.v[i]
                                                         ELSE lambdaBroglie.v[i]]]

Square(x) == x * x

SumOfSquares(x, y) == x * x + y * y

Plus(x, y) == x + y

\* (lambdaBroglie ** 2 + bPerp ** 2) ** (1 / 2), squared
InterpBmin2(lambdaBroglie, bPerp) == Map2(SumOfSquares, lambdaBroglie, bPerp)

\* (lambdaDe ** 2 + ionRadius ** 2) ** (1 / 2), squared
InterpBmax2(lambdaDe2, ionRadius2) == Map2(Plus, lambdaDe2, ionRadius2)

\* a variant of MethodTable: an unknown method falls back to the classical one
MethodTableWithDefault(method, lambdaDe2, lambdaBroglie, bPerp, ionRadius2) ==
    IF method \in {"ls_min_interp", "GMS-1", "ls_clamp_mininterp", "GMS-3",
                   "hls_min_interp", "GMS-4"}
    THEN <<InterpBmin2(lambdaBroglie, bPerp), lambdaDe2>>
    ELSE IF method \in {"ls_full_interp", "GMS-2", "hls_full_interp", "GMS-6"}
    THEN <<InterpBmin2(lambdaBroglie, bPerp), InterpBmax2(lambdaDe2, ionRadius2)>>
    ELSE IF method \in {"hls_max_interp", "GMS-5"}
    THEN <<Map1(Square, bPerp), InterpBmax2(lambdaDe2, ionRadius2)>>
    ELSE <<Map1(Square, ClassicalBmin(bPerp, lambdaBroglie)), lambdaDe2>>

\* the method dispatch: <<bmin2, bmax2>>, or <<>> for an unknown method
MethodTable(method, lambdaDe2, lambdaBroglie, bPerp, ionRadius2) ==
    IF method = "classical" \/ method = "ls"
    THEN <<Map1(Square, ClassicalBmin(bPerp, lambdaBroglie)), lambdaDe2>>
    ELSE IF method = "ls_min_interp" \/ method = "GMS-1"
    THEN <<InterpBmin2(lambdaBroglie, bPerp), lambdaDe2>>
    ELSE IF method = "ls_full_interp" \/ method = "GMS-2"
    THEN <<InterpBmin2(lambdaBroglie, bPerp), InterpBmax2(lambdaDe2, ionRadius2)>>
    ELSE IF method = "ls_clamp_mininterp" \/ method = "GMS-3"
    THEN <<InterpBmin2(lambdaBroglie, bPerp), lambdaDe2>>
    ELSE IF method = "hls_min_interp" \/ method = "GMS-4"
    THEN <<InterpBmin2(lambdaBroglie, bPerp), lambdaDe2>>
    ELSE IF method = "hls_max_interp" \/ method = "GMS-5"
    THEN <<Map1(Square, bPerp), InterpBmax2(lambdaDe2, ionRadius2)>>
    ELSE IF method = "hls_full_interp" \/ method = "GMS-6"
    THEN <<InterpBmin2(lambdaBroglie, bPerp), InterpBmax2(lambdaDe2, ionRadius2)>>
    ELSE <<>>

\* a variant of BroadcastBmin: bmin is returned as computed
BminAsComputed(bmin2, bmax2) == bmin2

\* np.repeat(bmin, len(bmax)) when bmin is scalar and bmax is not
BroadcastBmin(bmin2, bmax2) ==
    IF isscalar(bmin2) /\ ~isscalar(bmax2)
    THEN Array([i \in 1..Len(bmax2.v) |-> bmin2.v[1]])
    ELSE bmin2

\* impact_parameter left by an exception
impact_parameter_failed(exc) == [exc |-> exc, bmin2 |-> NoValue, bmax2 |-> NoValue]

\* the end of impact_parameter: mm is what the method dispatch gave
impact_parameter_return(mm) ==
    IF mm = <<>> THEN impact_parameter_failed(Raise("ValueError", "method"))
    ELSE [exc |-> NoError, bmin2 |-> BroadcastBmin(mm[1], mm[2]), bmax2 |-> mm[2]]

\* the method dispatch on the four lengths
impact_parameter_dispatch(method, lambdaDe2, lambdaBroglie, perp, ionRadius2) ==
    IF perp.exc.err # "none" THEN impact_parameter_failed(perp.exc)
    ELSE impact_parameter_return(
             MethodTable(method, lambdaDe2, lambdaBroglie, perp.bPerp, ionRadius2))

\* lambdaBroglie = hbar / (2 * reduced_mass * V)
lambdaBroglieOf(b) ==
    LET broglie(e) == hbar \div (2 * b.reduced_mass * e.x) IN Map1(broglie, b.V)

\* a variant of impact_parameter_body: z_mean is looked at before the outcome
\* of _boilerPlate
impact_parameter_body_z_mean_first(b, T, n_e, species, z_mean, method) ==
    IF method \in NeedsZMean /\ isnan(z_mean)
    THEN impact_parameter_failed(Raise("ValueError", "z_mean"))
    ELSE IF b.exc.err # "none" THEN impact_parameter_failed(b.exc)
    ELSE impact_parameter_dispatch(
             method,
             Debye_length2(T, n_e),
             lambdaBroglieOf(b),
             impact_parameter_perp(T, species, SomeV(b.V)),
             IF isnan(z_mean) THEN NoValue ELSE Wigner_Seitz_radius2(n_e, z_mean))

\* impact_parameter after its call of _boilerPlate, which gave b
impact_parameter_body(b, T, n_e, species, z_mean, method) ==
    IF b.exc.err # "none" THEN impact_parameter_failed(b.exc)
    ELSE IF method \in NeedsZMean /\ isnan(z_mean)
    THEN impact_parameter_failed(Raise("ValueError", "z_mean"))
    ELSE impact_parameter_dispatch(
             method,
             Debye_length2(T, n_e),
             lambdaBroglieOf(b),
             impact_parameter_perp(T, species, SomeV(b.V)),
             \* n_i and ionRadius are computed only by the methods that need them
             IF isnan(z_mean) THEN NoValue ELSE Wigner_Seitz_radius2(n_e, z_mean))

impact_parameter(T, n_e, species, z_mean, V, method) ==
    impact_parameter_body(boilerPlate(T, species, V), T, n_e, species, z_mean, method)

\* --------------------------------------------------- Coulomb_logarithm
\* a value of ln_Lambda in the half units ln_Lambda is carried in
InHalves(x) == 2 * x

\* the methods of ln(bmax / bmin)
LinearMethods == {"classical", "ls", "ls_min_interp", "GMS-1", "ls_full_interp", "GMS-2"}

\* a variant of WeakCouplingMethods: the alias GMS-2 left out
WeakCouplingMethodsWithoutAlias == {"classical", "ls", "ls_min_interp", "GMS-1", "ls_full_interp"}

\* the methods the weak-coupling warning is issued for
WeakCouplingMethods == {"classical", "ls", "ls_min_interp", "GMS-1", "ls_full_interp", "GMS-2"}

ClampMethods == {"ls_clamp_mininterp", "GMS-3"}

HyperbolicMethods == {"hls_min_interp", "GMS-4", "hls_max_interp", "GMS-5", "hls_full_interp", "GMS-6"}

\* a variant of LogRatio: the ratio taken the other way round
LogRatioInverted(bmax2, bmin2) == LnFloor(bmin2, bmax2)

\* np.log(bmax / bmin) = 0.5 * ln(bmax^2 / bmin^2)
LogRatio(bmax2, bmin2) == LnFloor(bmax2, bmin2)

\* a variant of HalfLogOnePlus: the 1 + left out
HalfLogWithoutOne(bmax2, bmin2) == LnFloor(bmax2, bmin2)

\* 0.5 * np.log(1 + bmax ** 2 / bmin ** 2)
HalfLogOnePlus(bmax2, bmin2) == LnFloor(bmin2 + bmax2, bmin2)

BelowTwo(x) == x < InHalves(2)

BelowFour(x) == x < InHalves(4)

\* a variant of Clamp: the scalar branch taken for arrays too, so that one
\* element below 2 replaces the whole result by 2
ClampWholeResult(ln_Lambda) ==
    IF AnyElem(BelowTwo, ln_Lambda)
    THEN [arr |-> ln_Lambda.arr, v |-> [i \in 1..Len(ln_Lambda.v) |-> InHalves(2)]]
    ELSE ln_Lambda

\* the clamp of ls_clamp_mininterp at 2
Clamp(ln_Lambda) ==
    IF AnyElem(BelowTwo, ln_Lambda)
    THEN IF isscalar(ln_Lambda)
         THEN Scalar(InHalves(2))
         ELSE Array([i \in 1..Len(ln_Lambda.v) |->
                        IF BelowTwo(ln_Lambda.v[i]) THEN InHalves(2) ELSE ln_Lambda.v[i]])
    ELSE ln_Lambda

\* the formula of the method's family, or <<>> for an unknown method
LnFormula(method, bmin2, bmax2) ==
    IF method \in LinearMethods THEN <<Map2(LogRatio, bmax2, bmin2)>>
    ELSE IF method \in ClampMethods THEN <<Clamp(Map2(LogRatio, bmax2, bmin2))>>
    ELSE IF method \in HyperbolicMethods THEN <<Map2(HalfLogOnePlus, bmax2, bmin2)>>
    ELSE <<>>

\* a variant of CouplingWarning: the check against 4 made first
CouplingWarningStrongFirst(method, ln_Lambda) ==
    IF AnyElem(BelowFour, ln_Lambda) THEN "strong"
    ELSE IF AnyElem(BelowTwo, ln_Lambda) /\ method \in WeakCouplingMethods THEN "weak"
    ELSE "none"

\* a variant of CouplingWarning: the strong-coupling check at 3, not 4
CouplingWarningBelowThree(method, ln_Lambda) ==
    LET BelowThree(x) == x < InHalves(3)
    IN  IF AnyElem(BelowTwo, ln_Lambda) /\ method \in WeakCouplingMethods THEN "weak"
        ELSE IF AnyElem(BelowThree, ln_Lambda) THEN "strong"
        ELSE "none"

\* the coupling warning issued for a result
CouplingWarning(method, ln_Lambda) ==
    IF AnyElem(BelowTwo, ln_Lambda) /\ method \in WeakCouplingMethods THEN "weak"
    ELSE IF AnyElem(BelowFour, ln_Lambda) THEN "strong"
    ELSE "none"

\* Coulomb_logarithm left by an exception
Coulomb_logarithm_failed(exc) == [exc |-> exc, ln_Lambda |-> NoValue, warning |-> "none"]

\* a variant of Coulomb_logarithm_return: a result with an element below 1
\* raises the PhysicsError the docstring announces
Coulomb_logarithm_return_raising(method, ln) ==
    LET BelowOne(x) == x < InHalves(1)
    IN  IF ln = <<>> THEN Coulomb_logarithm_failed(Raise("ValueError", "unknown_method"))
        ELSE IF AnyElem(BelowOne, ln[1])
        THEN Coulomb_logarithm_failed(Raise("PhysicsError", "below_one"))
        ELSE [exc |-> NoError, ln_Lambda |-> ln[1], warning |-> CouplingWarning(method, ln[1])]

\* the end of Coulomb_logarithm: ln is what the formula of the family gave;
\* the warnings, then the return of the value
Coulomb_logarithm_return(method, ln) ==
    IF ln = <<>> THEN Coulomb_logarithm_failed(Raise("ValueError", "unknown_method"))
    ELSE [exc |-> NoError, ln_Lambda |-> ln[1], warning |-> CouplingWarning(method, ln[1])]

\* Coulomb_logarithm after its call of impact_parameter, which gave ip
Coulomb_logarithm_body(ip, method) ==
    IF ip.exc.err # "none" THEN Coulomb_logarithm_failed(ip.exc)
    ELSE Coulomb_logarithm_return(method, LnFormula(method, ip.bmin2, ip.bmax2))

Coulomb_logarithm(T, n_e, species, z_mean, V, method) ==
    Coulomb_logarithm_body(impact_parameter(T, n_e, species, z_mean, V, method), method)

\* ------------------------------------------------------------- inputs
MethodNames == {"classical", "ls_min_interp", "ls_full_interp", "ls_clamp_mininterp",
                "hls_min_interp", "hls_max_interp", "hls_full_interp"}

MethodAliases == {"ls", "GMS-1", "GMS-2", "GMS-3", "GMS-4", "GMS-5", "GMS-6"}

KnownMethods == MethodNames \cup MethodAliases

\* strings that are no method: a misspelt alias, a method of coupling_parameter
UnknownMethods == {"GMS-7", "quantum"}

Methods == KnownMethods \cup UnknownMethods

TValues == {1, 16}

NValues == {1, 512}

\* entries of an array V: unset, zero, an ordinary speed
VValues == {NaN, Num(0), Num(2)}

\* a scalar V may also be the speed of light
VScalars == VValues \cup {Num(c)}

ZMeanValues == {NaN, Num(1), Num(8)}

SpeciesPairs == {<<"e-", "p+">>}

\* a scalar, or an array of length N, of elements of S
Quantities(S, N) == {Scalar(x) : x \in S} \cup {Array(s) : s \in [1..N -> S]}

VArguments(N) ==
    {NoneV} \cup {SomeV(Scalar(x)) : x \in VScalars}
            \cup {SomeV(Array(s)) : s \in [1..N -> VValues]}

CallArgs(N) ==
    [T : Quantities(TValues, N), n_e : Quantities(NValues, N), species : SpeciesPairs,
     z_mean : ZMeanValues, V : VArguments(N), method : Methods]

\* ---------------------------------------------------------- the calls
NoOutcome == [exc |-> NoError, bmin2 |-> NoValue, bmax2 |-> NoValue,
              ln_Lambda |-> NoValue, warning |-> "none"]

\* every argument list of a call, all its arrays of one length
AllArgs == UNION {CallArgs(N) : N \in 1..MaxLen}

\* the caller holds the arguments of the call it is about to make
Init ==
    /\ pc = "idle"
    /\ fn = "none"
    /\ args \in AllArgs
    /\ out = NoOutcome

\* the caller's view of a result r of impact_parameter
Left_impact_parameter(r) ==
    [NoOutcome EXCEPT !.exc = r.exc, !.bmin2 = r.bmin2, !.bmax2 = r.bmax2]

\* the caller's view of a result r of Coulomb_logarithm
Left_Coulomb_logarithm(r) ==
    [NoOutcome EXCEPT !.exc = r.exc, !.ln_Lambda = r.ln_Lambda, !.warning = r.warning]

\* what a call of impact_parameter leaves with its caller
Outcome_impact_parameter(a) ==
    Left_impact_parameter(impact_parameter(a.T, a.n_e, a.species, a.z_mean, a.V, a.method))

\* what a call of Coulomb_logarithm leaves with its caller
Outcome_Coulomb_logarithm(a) ==
    Left_Coulomb_logarithm(Coulomb_logarithm(a.T, a.n_e, a.species, a.z_mean, a.V, a.method))

Call_impact_parameter ==
    /\ pc = "idle"
    /\ out' = Outcome_impact_parameter(args)
    /\ fn' = "impact_parameter"
    /\ pc' = "returned"
    /\ UNCHANGED args

Call_Coulomb_logarithm ==
    /\ pc = "idle"
    /\ out' = Outcome_Coulomb_logarithm(args)
    /\ fn' = "Coulomb_logarithm"
    /\ pc' = "returned"
    /\ UNCHANGED args

Next == Call_impact_parameter \/ Call_Coulomb_logarithm

Spec == Init /\ [][Next]_vars

\* ====================================================== the properties
Returned == pc = "returned"

CalledIP == pc = "returned" /\ fn = "impact_parameter"

CalledCL == pc = "returned" /\ fn = "Coulomb_logarithm"

Succeeded == out.exc.err = "none"

\* the call left no value with its caller
NoResult == out.bmin2 = NoValue /\ out.bmax2 = NoValue /\ out.ln_Lambda = NoValue

\* the errors the specification calls configuration errors: an unknown
\* method or a missing z_mean (ValueError), a zero velocity (PhysicsError), a
\* relativistic velocity (RelativityError)
IsConfigurationError(exc) == exc.err \in {"ValueError", "PhysicsError", "RelativityError"}

\* the velocity of the call passes the zero and the relativistic check
VelocityAccepted(a) == boilerPlate(a.T, a.species, a.V).exc.err = "none"

\* the impact parameters of the arguments a
IPOf(a) == impact_parameter(a.T, a.n_e, a.species, a.z_mean, a.V, a.method)

\* element i of ln(bmax / bmin) for the impact parameters ip
LinearAt(ip, i) == LnFloor(Elem(ip.bmax2, i), Elem(ip.bmin2, i))

\* element i of 0.5 ln(1 + (bmax / bmin)^2) for the impact parameters ip
HyperbolicAt(ip, i) == LnFloor(Elem(ip.bmin2, i) + Elem(ip.bmax2, i), Elem(ip.bmin2, i))

\* C1: with method ls_clamp_mininterp or GMS-3 no element of the result is
\* below 2: an element whose ln(bmax / bmin) is below 2 is returned as exactly
\* 2 and every other element unchanged, for scalars and arrays alike.
C1_ClampAtTwo ==
    (CalledCL /\ Succeeded /\ args.method \in {"ls_clamp_mininterp", "GMS-3"}) =>
        LET ip == IPOf(args)
            n  == BLen(ip.bmax2, ip.bmin2)
        IN  /\ Len(out.ln_Lambda.v) = n
            /\ out.ln_Lambda.arr = (ip.bmax2.arr \/ ip.bmin2.arr)
            /\ \A i \in 1..n :
                  /\ out.ln_Lambda.v[i] >= InHalves(2)
                  /\ LinearAt(ip, i) < InHalves(2) => out.ln_Lambda.v[i] = InHalves(2)
                  /\ LinearAt(ip, i) >= InHalves(2) => out.ln_Lambda.v[i] = LinearAt(ip, i)

\* an array result of the clamped method with one element raised to 2 and
\* another, above 2, left as it was
C1_Witness ==
    /\ CalledCL /\ Succeeded /\ args.method = "ls_clamp_mininterp"
    /\ out.ln_Lambda.arr
    /\ \E i, j \in 1..Len(out.ln_Lambda.v) :
          /\ LinearAt(IPOf(args), i) < InHalves(2) /\ out.ln_Lambda.v[i] = InHalves(2)
          /\ LinearAt(IPOf(args), j) > InHalves(2) /\ out.ln_Lambda.v[j] > InHalves(2)

\* C2: with a method that needs z_mean, a call whose z_mean is not-a-number
\* fails with a configuration error (the missing-z_mean ValueError when its
\* velocity is accepted) and returns nothing; with z_mean supplied it succeeds.
C2_RequiredZMean ==
    (Returned /\ args.method \in {"ls_full_interp", "GMS-2", "hls_max_interp", "GMS-5",
                                  "hls_full_interp", "GMS-6"}) =>
        /\ isnan(args.z_mean) => ~Succeeded /\ IsConfigurationError(out.exc) /\ NoResult
        /\ (isnan(args.z_mean) /\ VelocityAccepted(args)) =>
               out.exc = Raise("ValueError", "z_mean")
        /\ (~isnan(args.z_mean) /\ VelocityAccepted(args)) => Succeeded

\* Coulomb_logarithm with GMS-6 and no z_mean has failed for the missing z_mean
C2_Witness ==
    /\ CalledCL /\ args.method = "GMS-6" /\ isnan(args.z_mean)
    /\ out.exc = Raise("ValueError", "z_mean")

\* C3: a method string that is none of the 7 names and 7 aliases makes
\* impact_parameter and Coulomb_logarithm fail with a configuration error
\* (the unknown-method ValueError when the velocity is accepted); no numeric
\* result is returned.
C3_UnknownMethod ==
    (Returned /\ args.method \notin
        {"classical", "ls", "ls_min_interp", "GMS-1", "ls_full_interp", "GMS-2",
         "ls_clamp_mininterp", "GMS-3", "hls_min_interp", "GMS-4", "hls_max_interp",
         "GMS-5", "hls_full_interp", "GMS-6"}) =>
        /\ ~Succeeded /\ IsConfigurationError(out.exc) /\ NoResult
        /\ VelocityAccepted(args) => out.exc = Raise("ValueError", "method")

\* Coulomb_logarithm has failed on an unknown method
C3_Witness ==
    /\ CalledCL /\ args.method = "GMS-7" /\ ~isnan(args.z_mean)
    /\ out.exc = Raise("ValueError", "method")

\* the four lengths of the method table for the arguments a, element i:
\* the squared Debye length L2, the de Broglie wavelength B, the distance of
\* closest approach P and the squared ion-sphere radius A2
DebyeAt(a, i) == Elem(Debye_length2(a.T, a.n_e), i)

BroglieAt(a, i) ==
    LET b == boilerPlate(a.T, a.species, a.V)
    IN  hbar \div (2 * b.reduced_mass * Elem(b.V, i).x)

PerpAt(a, i) == Elem(impact_parameter_perp(a.T, a.species, a.V).bPerp, i)

IonSphereAt(a, i) == Elem(Wigner_Seitz_radius2(a.n_e, a.z_mean), i)

\* C4: impact_parameter returns the (bmin, bmax) of the method table:
\* classical max(P, B) and L; ls_min_interp, ls_clamp_mininterp and
\* hls_min_interp sqrt(B^2 + P^2) and L; ls_full_interp and hls_full_interp
\* sqrt(B^2 + P^2) and sqrt(L^2 + A^2); hls_max_interp P and sqrt(L^2 + A^2).
C4_MethodTable ==
    (CalledIP /\ Succeeded) =>
        \A i \in 1..Max(Len(out.bmin2.v), Len(out.bmax2.v)) :
            LET L2 == DebyeAt(args, i)
                B  == BroglieAt(args, i)
                P  == PerpAt(args, i)
                m  == args.method
            IN  /\ m = "classical" =>
                      /\ Elem(out.bmin2, i) = Max(P, B) * Max(P, B)
                      /\ Elem(out.bmax2, i) = L2
                /\ m \in {"ls_min_interp", "ls_clamp_mininterp", "hls_min_interp"} =>
                      /\ Elem(out.bmin2, i) = B * B + P * P
                      /\ Elem(out.bmax2, i) = L2
                /\ m \in {"ls_full_interp", "hls_full_interp"} =>
                      /\ Elem(out.bmin2, i) = B * B + P * P
                      /\ Elem(out.bmax2, i) = L2 + IonSphereAt(args, i)
                /\ m = "hls_max_interp" =>
                      /\ Elem(out.bmin2, i) = P * P
                      /\ Elem(out.bmax2, i) = L2 + IonSphereAt(args, i)

\* the classical method on an array where P is the larger length in one
\* element and B in another
C4_Witness ==
    /\ CalledIP /\ Succeeded /\ args.method = "classical"
    /\ \E i, j \in 1..Len(out.bmin2.v) :
          /\ PerpAt(args, i) > BroglieAt(args, i)
          /\ PerpAt(args, j) < BroglieAt(args, j)
          /\ out.bmin2.v[i] = PerpAt(args, i) * PerpAt(args, i)
          /\ out.bmin2.v[j] = BroglieAt(args, j) * BroglieAt(args, j)

\* C5: Coulomb_logarithm applies the formula of the method's family to the
\* (bmin, bmax) impact_parameter returns for the same arguments:
\* ln(bmax / bmin) for the linear family, 0.5 ln(1 + (bmax / bmin)^2) for the
\* hyperbolic family.
C5_FamilyFormula ==
    (CalledCL /\ Succeeded) =>
        LET ip == IPOf(args)
            n  == BLen(ip.bmax2, ip.bmin2)
        IN  /\ args.method \in {"classical", "ls", "ls_min_interp", "GMS-1",
                                "ls_full_interp", "GMS-2"} =>
                  /\ ip.exc.err = "none"
                  /\ Len(out.ln_Lambda.v) = n
                  /\ \A i \in 1..n : out.ln_Lambda.v[i] = LinearAt(ip, i)
            /\ args.method \in {"hls_min_interp", "GMS-4", "hls_max_interp", "GMS-5",
                                "hls_full_interp", "GMS-6"} =>
                  /\ ip.exc.err = "none"
                  /\ Len(out.ln_Lambda.v) = n
                  /\ \A i \in 1..n : out.ln_Lambda.v[i] = HyperbolicAt(ip, i)

\* a hyperbolic method on impact parameters with bmax < bmin, where the two
\* formulas differ
C5_Witness ==
    /\ CalledCL /\ Succeeded /\ args.method = "hls_min_interp"
    /\ \E i \in 1..Len(out.ln_Lambda.v) :
          /\ Elem(IPOf(args).bmax2, i) < Elem(IPOf(args).bmin2, i)
          /\ out.ln_Lambda.v[i] = HyperbolicAt(IPOf(args), i)
          /\ out.ln_Lambda.v[i] # LinearAt(IPOf(args), i)

\* the other name of a method
Partner(m) ==
    CASE m = "classical" -> "ls"                 [] m = "ls" -> "classical"
      [] m = "ls_min_interp" -> "GMS-1"          [] m = "GMS-1" -> "ls_min_interp"
      [] m = "ls_full_interp" -> "GMS-2"         [] m = "GMS-2" -> "ls_full_interp"
      [] m = "ls_clamp_mininterp" -> "GMS-3"     [] m = "GMS-3" -> "ls_clamp_mininterp"
      [] m = "hls_min_interp" -> "GMS-4"         [] m = "GMS-4" -> "hls_min_interp"
      [] m = "hls_max_interp" -> "GMS-5"         [] m = "GMS-5" -> "hls_max_interp"
      [] m = "hls_full_interp" -> "GMS-6"        [] m = "GMS-6" -> "hls_full_interp"
      [] OTHER -> m

\* C6: a call with an alias has the outcome (values, error, coupling warning)
\* of the same call with the full method name, and conversely.
C6_AliasSameOutcome ==
    LET other == [args EXCEPT !.method = Partner(args.method)]
    IN  /\ (CalledIP /\ args.method \in KnownMethods) =>
               out = Outcome_impact_parameter(other)
        /\ (CalledCL /\ args.method \in KnownMethods) =>
               out = Outcome_Coulomb_logarithm(other)

\* Coulomb_logarithm called with the alias GMS-2 has returned a value with the
\* weak-coupling warning, as ls_full_interp does
C6_Witness ==
    /\ CalledCL /\ Succeeded /\ args.method = "GMS-2" /\ out.warning = "weak"
    /\ out = Outcome_Coulomb_logarithm([args EXCEPT !.method = "ls_full_interp"])

\* some element of the returned ln_Lambda is below 2
SomeBelowTwo == \E i \in 1..Len(out.ln_Lambda.v) : out.ln_Lambda.v[i] < InHalves(2)

\* some element of the returned ln_Lambda is in [2, 4)
SomeTwoToFour ==
    \E i \in 1..Len(out.ln_Lambda.v) :
        out.ln_Lambda.v[i] >= InHalves(2) /\ out.ln_Lambda.v[i] < InHalves(4)

LinearFamily == {"classical", "ls", "ls_min_interp", "GMS-1", "ls_full_interp", "GMS-2"}

\* C7: the weak-coupling warning is issued exactly when the method is of the
\* linear family and some element of the result is below 2.
C7_WeakCouplingWarning ==
    (CalledCL /\ Succeeded) =>
        (out.warning = "weak" <=> (args.method \in LinearFamily /\ SomeBelowTwo))

\* a linear method has returned an array with an element below 2, with the
\* weak-coupling warning
C7_Witness ==
    /\ CalledCL /\ Succeeded /\ args.method = "ls_min_interp"
    /\ out.ln_Lambda.arr /\ SomeBelowTwo /\ out.warning = "weak"

\* C8 as stated: for every method, an element in [2, 4) brings the
\* strong-coupling warning, also when another element is below 2.
C8_StrongWarningAlways ==
    (CalledCL /\ Succeeded /\ SomeTwoToFour) => out.warning = "strong"

\* C8 as amended: an element in [2, 4) brings the strong-coupling warning,
\* unless the method is of the linear family and another element is below 2:
\* then the weak-coupling warning is issued in its place.
C8_StrongWarningUnlessWeak ==
    (CalledCL /\ Succeeded /\ SomeTwoToFour) =>
        out.warning = IF args.method \in LinearFamily /\ SomeBelowTwo THEN "weak"
                      ELSE "strong"

\* a hyperbolic method has returned an array with an element in [2, 4) and an
\* element below 2, with the strong-coupling warning
C8_Witness ==
    /\ CalledCL /\ Succeeded /\ args.method \in {"hls_min_interp", "hls_full_interp"}
    /\ SomeTwoToFour /\ SomeBelowTwo /\ out.warning = "strong"

\* a known method, z_mean supplied where the method needs it, a velocity
\* that passes the checks
ValidCall(a) ==
    /\ a.method \in KnownMethods
    /\ a.method \in {"ls_full_interp", "GMS-2", "hls_max_interp", "GMS-5",
                     "hls_full_interp", "GMS-6"} => ~isnan(a.z_mean)
    /\ VelocityAccepted(a)

\* element i of the value the method's formula gives for the impact parameters
\* ip, whatever warning goes with it
FormulaAt(m, ip, i) ==
    IF m \in LinearFamily THEN LinearAt(ip, i)
    ELSE IF m \in {"ls_clamp_mininterp", "GMS-3"} THEN Max(LinearAt(ip, i), InHalves(2))
    ELSE HyperbolicAt(ip, i)

C10_PhysicsErrorBelowOne ==
    (CalledCL /\ ValidCall(args)
        /\ \E i \in 1..BLen(IPOf(args).bmax2, IPOf(args).bmin2) :
              FormulaAt(args.method, IPOf(args), i) < InHalves(1)) =>
        out.exc.err = "PhysicsError"

\* ================================================= thomson.spectral_density
\* Populations are counted, not measured: a temperature array is the sequence
\* of its values, a fraction array the sequence of its fractions in percent, a
\* velocity array the sequence of its rows (3-vectors).

\* most populations of one kind a caller gives
MaxPop == 2

\* an optional argument: None, or the array v
None == [none |-> TRUE, v |-> <<>>]

Some(v) == [none |-> FALSE, v |-> v]

\* the ion_species argument: one identity, or a list of identities
One(x) == [list |-> FALSE, one |-> x, items |-> <<>>]

List(s) == [list |-> TRUE, one |-> <<>>, items |-> s]

\* an identity: a string token, or a resolved Particle
Token(sym) == [particle |-> FALSE, symbol |-> sym]

\* particles.Particle(ion): the descriptor of a token; a descriptor resolves to
\* itself
Particle(ion) == [particle |-> TRUE, symbol |-> ion.symbol]

\* np.ones(1), in percent
Ones == <<100>>

\* a row of np.zeros([n, 3])
ZeroRow == <<0, 0, 0>>

\* a variant of FractOrOnes: two populations of one half when None
FractOrHalves(fract) == IF fract.none THEN <<50, 50>> ELSE fract.v

\* efract / ifract: np.ones(1) when None, else the array given
FractOrOnes(fract) == IF fract.none THEN Ones ELSE fract.v

\* a variant of VelOrZeros: velocities given are cut or filled to one row per
\* fraction
VelFittedOrZeros(vel, fract) ==
    [i \in 1..Len(fract) |->
        IF vel.none \/ i > Len(vel.v) THEN ZeroRow ELSE vel.v[i]]

\* electron_vel / ion_vel: np.zeros([fract.size, 3]) when None
VelOrZeros(vel, fract) ==
    IF vel.none THEN [i \in 1..Len(fract) |-> ZeroRow] ELSE vel.v

\* isinstance(ion_species, (str, Particle)): the list the function works on
SpeciesAsList(ion_species) ==
    IF ~ion_species.list THEN <<ion_species.one>> ELSE ion_species.items

\* the loop over ion_species: every entry that is no Particle is replaced, in
\* the list itself, by the Particle of it
ResolvedSpecies(species) ==
    [ii \in 1..Len(species) |->
        IF species[ii].particle THEN species[ii] ELSE Particle(species[ii])]

\* np.repeat(Te, n) / [Ti.value] * n of a single value; an array is kept
RepeatSingle(T, n) == IF Len(T) = 1 THEN [i \in 1..n |-> T[1]] ELSE T

\* what an f-string shows of a number and of an array
ShownNumber(n) == [shows |-> "number", text |-> <<n>>]

ShownArray(a) == [shows |-> "array", text |-> a]

\* no spectrum
NoSpectrum == [electrons |-> <<>>, ions |-> <<>>]

NoMessage == [shows |-> "nothing"]

\* spectral_density left by raise ValueError(msg); species is its list of
\* species at that point
sd_failed(site, msg, species) ==
    [exc |-> Raise("ValueError", site), msg |-> msg, result |-> NoSpectrum,
     ion_species |-> species]

\* the populations alpha and Skw are computed from: the plasma parameters and
\* the sums over efract and over ion_species read entry i of each array
Populations(Te, Ti, efract, ifract, species, electron_vel, ion_vel) ==
    [electrons |-> [i \in 1..Len(efract) |->
                       [fract |-> efract[i], T |-> Te[i], vel |-> electron_vel[i]]],
     ions      |-> [i \in 1..Len(species) |->
                       [fract |-> ifract[i], T |-> Ti[i], species |-> species[i],
                        vel |-> ion_vel[i]]]]

\* a variant of sd_consistency: the electron populations are checked first
sd_consistency_electrons_first(Te, Ti, efract, ifract, species, electron_vel, ion_vel) ==
    IF Len(electron_vel) # Len(efract) \/ Len(Te) # Len(efract)
    THEN sd_failed("electron_counts",
                   [efract |-> ShownNumber(Len(efract)), Te |-> ShownNumber(Len(Te)),
                    electron_vel |-> ShownNumber(Len(electron_vel))],
                   species)
    ELSE IF Len(species) # Len(ifract) \/ Len(ion_vel) # Len(ifract) \/ Len(Ti) # Len(ifract)
    THEN sd_failed("ion_counts",
                   [ifract |-> ShownArray(ifract), ion_species |-> ShownNumber(Len(species)),
                    Ti |-> ShownNumber(Len(Ti)), ion_vel |-> ShownNumber(Len(ion_vel))],
                   species)
    ELSE [exc |-> NoError, msg |-> NoMessage,
          result |-> Populations(Te, Ti, efract, ifract, species, electron_vel, ion_vel),
          ion_species |-> species]

\* the two consistency checks, then the computation and the return.  The
\* message of the ion check shows the array ifract itself, f"({ifract})", and
\* the sizes of the others
sd_consistency(Te, Ti, efract, ifract, species, electron_vel, ion_vel) ==
    IF Len(species) # Len(ifract) \/ Len(ion_vel) # Len(ifract) \/ Len(Ti) # Len(ifract)
    THEN sd_failed("ion_counts",
                   [ifract |-> ShownArray(ifract), ion_species |-> ShownNumber(Len(species)),
                    Ti |-> ShownNumber(Len(Ti)), ion_vel |-> ShownNumber(Len(ion_vel))],
                   species)
    ELSE IF Len(electron_vel) # Len(efract) \/ Len(Te) # Len(efract)
    THEN sd_failed("electron_counts",
                   [efract |-> ShownNumber(Len(efract)), Te |-> ShownNumber(Len(Te)),
                    electron_vel |-> ShownNumber(Len(electron_vel))],
                   species)
    ELSE [exc |-> NoError, msg |-> NoMessage,
          result |-> Populations(Te, Ti, efract, ifract, species, electron_vel, ion_vel),
          ion_species |-> species]

\* a variant of sd_temperatures: the length of Te is not checked here
sd_temperatures_Te_unchecked(Te, Ti, efract, ifract, species, electron_vel, ion_vel) ==
    IF Len(Ti) # 1 /\ Len(Ti) # Len(species)
    THEN sd_failed("Ti",
                   [got |-> ShownNumber(Len(Ti)), expected |-> ShownNumber(Len(species))],
                   species)
    ELSE sd_consistency(RepeatSingle(Te, Len(efract)), RepeatSingle(Ti, Len(species)),
                        efract, ifract, species, electron_vel, ion_vel)

\* the conditioning of Te (against len(efract)), then of Ti (against
\* len(ion_species))
sd_temperatures(Te, Ti, efract, ifract, species, electron_vel, ion_vel) ==
    IF Len(Te) # 1 /\ Len(Te) # Len(efract)
    THEN sd_failed("Te",
                   [got |-> ShownNumber(Len(Te)), expected |-> ShownNumber(Len(efract))],
                   species)
    ELSE IF Len(Ti) # 1 /\ Len(Ti) # Len(species)
    THEN sd_failed("Ti",
                   [got |-> ShownNumber(Len(Ti)), expected |-> ShownNumber(Len(species))],
                   species)
    ELSE sd_consistency(RepeatSingle(Te, Len(efract)), RepeatSingle(Ti, Len(species)),
                        efract, ifract, species, electron_vel, ion_vel)

\* a variant of sd_species: an empty list is not rejected here
sd_species_unchecked(Te, Ti, efract, ifract, species, electron_vel, ion_vel) ==
    sd_temperatures(Te, Ti, efract, ifract, ResolvedSpecies(species), electron_vel, ion_vel)

\* the conditioning of ion_species: an empty list fails, else its entries are
\* resolved
sd_species(Te, Ti, efract, ifract, species, electron_vel, ion_vel) ==
    IF Len(species) = 0
    THEN sd_failed("ion_species", [needs |-> "at least one ion species"], species)
    ELSE sd_temperatures(Te, Ti, efract, ifract, ResolvedSpecies(species),
                         electron_vel, ion_vel)

\* spectral_density after the defaults of efract and ifract
sd_defaults(Te, Ti, efract, ifract, ion_species, electron_vel, ion_vel) ==
    sd_species(Te, Ti, efract, ifract, SpeciesAsList(ion_species),
               VelOrZeros(electron_vel, efract), VelOrZeros(ion_vel, ifract))

spectral_density(Te, Ti, efract, ifract, ion_species, electron_vel, ion_vel) ==
    sd_defaults(Te, Ti, FractOrOnes(efract), FractOrOnes(ifract), ion_species,
                electron_vel, ion_vel)

\* what spectral_density leaves with its caller: the error and its message,
\* or the result
Left_spectral_density(r) == [exc |-> r.exc, msg |-> r.msg, result |-> r.result]

\* the caller's ion_species object after the call: a list it passed is the
\* list the function has worked on
SpeciesObjectAfter(ion_species, species) ==
    IF ion_species.list THEN List(species) ELSE ion_species

\* ------------------------------------------- inputs of spectral_density
\* 1 to MaxPop + 1 temperatures, all different
Temperatures == {[i \in 1..k |-> 10 * i] : k \in 1..(MaxPop + 1)}

\* None, or 1 to MaxPop fractions (of 50 percent: the fractions are not checked)
Fractions == {None} \cup {Some([i \in 1..k |-> 50]) : k \in 1..MaxPop}

\* None, or 1 to MaxPop rows of a drift along x
Velocities == {None} \cup {Some([i \in 1..k |-> <<5, 0, 0>>]) : k \in 1..MaxPop}

Identities == {Token("H+"), Token("He-4 2+"), Particle(Token("H+"))}

SpeciesArguments ==
    {One(x) : x \in Identities}
        \cup {List(s) : s \in UNION {[1..k -> Identities] : k \in 0..MaxPop}}

ThomsonArgs ==
    [Te : Temperatures, Ti : Temperatures, efract : Fractions, ifract : Fractions,
     ion_species : SpeciesArguments, electron_vel : Velocities, ion_vel : Velocities]

\* ------------------------------------- calls on objects the caller keeps
\* The caller keeps its argument objects between calls and may pass them
\* again; args holds their present values.

\* no call has left anything yet
NothingYet == [exc |-> NoError]

\* the objects are those of a call of spectral_density
IsThomson(a) == "Te" \in DOMAIN a

\* the objects are those of a call of the collision functions
IsCoulomb(a) == "method" \in DOMAIN a

InitThomson ==
    /\ pc = "idle"
    /\ fn = "none"
    /\ args \in ThomsonArgs
    /\ out = NothingYet

Invoke_spectral_density ==
    /\ IsThomson(args)
    /\ \E r \in {spectral_density(args.Te, args.Ti, args.efract, args.ifract,
                                  args.ion_species, args.electron_vel, args.ion_vel)} :
          /\ out' = Left_spectral_density(r)
          /\ args' = [args EXCEPT !.ion_species = SpeciesObjectAfter(@, r.ion_species)]
    /\ fn' = "spectral_density"
    /\ pc' = "returned"

NextThomson == Invoke_spectral_density

SpecThomson == InitThomson /\ [][NextThomson]_vars

\* ------------------------------------------- the V objects of a call
\* V left out of the call: the function receives the default object of its
\* signature, V=np.nan * u.m / u.s, which the module holds for every call
Omitted == [none |-> FALSE, arr |-> FALSE, v |-> <<>>]

\* the default object as the module is loaded
PristineV == SomeV(Scalar(NaN))

\* the density of the calls on kept objects
NKept == {1}

\* the objects of a call of the collision functions: the caller's arguments
\* and, as default_V, the default object of the signature
CoulombObjects ==
    UNION {[T : Quantities(TValues, N), n_e : Quantities(NKept, N),
            species : SpeciesPairs, z_mean : ZMeanValues,
            V : VArguments(N) \cup {Omitted}, method : Methods,
            default_V : {PristineV}] : N \in 1..MaxLen}

\* the V object the function receives
PassedV(a) == IF a.V = Omitted THEN a.default_V ELSE a.V

\* the arguments the function receives
Passed(a) == [a EXCEPT !.V = PassedV(a)]

\* a variant of WrittenV: with a scalar T the thermal speed is written into
\* the object passed, a scalar V included
WrittenVScalarToo(V, T, th) ==
    IF AnyZero(V) \/ V.none THEN V
    ELSE IF AnyElem(isnan, V) /\ isscalar(T)
    THEN SomeV(SetNanScalarT(V, th))
    ELSE V

\* the object V after _replaceNanVwithThermalV(V, T, m), th being the thermal
\* speed: V[np.isnan(V)] = th writes into the object passed when V has not
\* been rebound before (V an array, T a scalar); a scalar V is rebound to th
\* first, an array V with an array T is copied first
WrittenV(V, T, th) ==
    IF AnyZero(V) \/ V.none THEN V
    ELSE IF AnyElem(isnan, V) /\ ~isscalar(V) /\ isscalar(T)
    THEN SomeV(SetNanScalarT(V, th))
    ELSE V

\* the objects after a call that worked on the V object itself
ObjectsAfter(a, written) ==
    IF a.V = Omitted THEN [a EXCEPT !.default_V = written] ELSE [a EXCEPT !.V = written]

\* the objects after a call.  The validation layer, which is not part of
\* these sources, hands V to the function either as the caller's object or as
\* a converted copy of it
ObjectsAfterCall(a, copied) ==
    IF copied THEN a
    ELSE ObjectsAfter(a, WrittenV(PassedV(a), a.T,
                                  thermal_speed(a.T, reduced_mass(a.species))))

\* what a call of impact_parameter_perp leaves with its caller
Left_impact_parameter_perp(r) == [exc |-> r.exc, bPerp |-> r.bPerp]

Outcome_impact_parameter_perp(a) ==
    Left_impact_parameter_perp(impact_parameter_perp(a.T, a.species, a.V))

InitCalls ==
    /\ pc = "idle"
    /\ fn = "none"
    /\ args \in CoulombObjects \cup ThomsonArgs
    /\ out = NothingYet

Invoke_impact_parameter ==
    /\ IsCoulomb(args)
    /\ out' = Outcome_impact_parameter(Passed(args))
    /\ \E copied \in BOOLEAN : args' = ObjectsAfterCall(args, copied)
    /\ fn' = "impact_parameter"
    /\ pc' = "returned"

Invoke_impact_parameter_perp ==
    /\ IsCoulomb(args)
    /\ out' = Outcome_impact_parameter_perp(Passed(args))
    /\ \E copied \in BOOLEAN : args' = ObjectsAfterCall(args, copied)
    /\ fn' = "impact_parameter_perp"
    /\ pc' = "returned"

Invoke_Coulomb_logarithm ==
    /\ IsCoulomb(args)
    /\ out' = Outcome_Coulomb_logarithm(Passed(args))
    /\ \E copied \in BOOLEAN : args' = ObjectsAfterCall(args, copied)
    /\ fn' = "Coulomb_logarithm"
    /\ pc' = "returned"

\* between two calls the caller binds T to another temperature and keeps
\* its other objects
Rebind_T ==
    /\ IsCoulomb(args)
    /\ pc = "returned"
    /\ \E t \in TValues : args' = [args EXCEPT !.T = Scalar(t)]
    /\ out' = NothingYet
    /\ fn' = "none"
    /\ pc' = "idle"

NextCalls ==
    \/ Invoke_impact_parameter
    \/ Invoke_impact_parameter_perp
    \/ Invoke_Coulomb_logarithm
    \/ Invoke_spectral_density
    \/ Rebind_T

SpecCalls == InitCalls /\ [][NextCalls]_vars

\* ============================================ properties of the calls
\* a call of function f has returned or failed
Called(f) == pc = "returned" /\ fn = f

\* a call of one of the three collision functions has returned or failed
CalledCollision == pc = "returned" /\ IsCoulomb(args)

\* the velocity given to the call is zero, or an array with a zero entry
HasZeroVelocity(a) ==
    /\ a.V # Omitted
    /\ ~a.V.none
    /\ \E i \in 1..Len(a.V.v) : ~a.V.v[i].nan /\ a.V.v[i].x = 0

\* the call has left no number with its caller
NothingComputed ==
    /\ fn = "impact_parameter" => out.bmin2 = NoValue /\ out.bmax2 = NoValue
    /\ fn = "impact_parameter_perp" => out.bPerp = NoValue
    /\ fn = "Coulomb_logarithm" =>
           out.ln_Lambda = NoValue /\ out.bmin2 = NoValue /\ out.bmax2 = NoValue
    /\ fn = "spectral_density" => out.result = NoSpectrum

\* C11: a relative velocity V that is zero, or an array V with at least one
\* zero entry, makes impact_parameter, impact_parameter_perp and
\* Coulomb_logarithm fail with an error (the PhysicsError of the zero check)
\* and compute nothing, for every method and every other argument.
C11_ZeroVelocityRejected ==
    (CalledCollision /\ HasZeroVelocity(args)) =>
        /\ out.exc = Raise("PhysicsError", "zero_velocity")
        /\ NothingComputed

\* impact_parameter_perp has failed on an array V with one zero entry beside
\* an unset one
C11_Witness ==
    /\ Called("impact_parameter_perp")
    /\ args.V # Omitted /\ args.V.arr /\ Len(args.V.v) = 2
    /\ args.V.v[1] = NaN /\ args.V.v[2] = Num(0)
    /\ out.exc.err = "PhysicsError" /\ out.bPerp = NoValue

\* the thermal velocity of entry i of T for the reduced mass of the pair
ThermalAt(a, i) == Num(Isqrt((2 * Elem(a.T, i)) \div reduced_mass(a.species)))

\* V is unset: left out, None, or a not-a-number scalar
UnsetV(a) == a.V = Omitted \/ a.V.none \/ (~a.V.arr /\ a.V.v[1].nan)

\* the velocity the claim C12 has the call use
UsedV(a) ==
    IF UnsetV(a) THEN [arr |-> a.T.arr, v |-> [i \in 1..Len(a.T.v) |-> ThermalAt(a, i)]]
    ELSE [arr |-> a.V.arr,
          v   |-> [i \in 1..Len(a.V.v) |->
                      IF a.V.v[i].nan THEN ThermalAt(a, i) ELSE a.V.v[i]]]

\* C12: when V is unset (left out, None or a not-a-number scalar)
\* impact_parameter uses the thermal velocity of T and the reduced mass of the
\* pair; of an array V exactly the not-a-number entries are replaced by the
\* thermal velocity (of the matching entry of T when T is an array) and every
\* other entry is used as given: the call has the outcome of the call with
\* that velocity passed explicitly, and _boilerPlate hands on that velocity.
C12_ThermalVelocityUsed ==
    (Called("impact_parameter") /\ ~HasZeroVelocity(args)) =>
        /\ out = Outcome_impact_parameter([args EXCEPT !.V = SomeV(UsedV(args))])
        /\ out.exc.err = "none" =>
               boilerPlate(args.T, args.species, PassedV(args)).V = UsedV(args)

\* an array V with one entry given and one unset, and an array T of two
\* different temperatures: the unset entry got the thermal velocity of the
\* second temperature
C12_Witness ==
    /\ Called("impact_parameter") /\ out.exc.err = "none"
    /\ args.V # Omitted /\ args.V.arr /\ args.V.v = <<Num(2), NaN>>
    /\ args.T.arr /\ args.T.v = <<1, 16>>
    /\ UsedV(args).v = <<Num(2), Num(4)>>
    /\ out = Outcome_impact_parameter([args EXCEPT !.V = SomeV(Array(<<Num(2), Num(4)>>))])

\* ------------------------------------ the population counts of a call
\* the count an argument gives: its length, or that of its default
CountOfFract(fract) == IF fract.none THEN 1 ELSE Len(fract.v)

CountOfVel(vel, fract) == IF vel.none THEN CountOfFract(fract) ELSE Len(vel.v)

CountOfSpecies(ion_species) == IF ion_species.list THEN Len(ion_species.items) ELSE 1

\* a single temperature is broadcast to n populations
CountOfT(T, n) == IF Len(T) = 1 THEN n ELSE Len(T)

\* the counts given by ifract, ion_species, Ti and ion_vel
IonCounts(a) ==
    {CountOfFract(a.ifract), CountOfSpecies(a.ion_species),
     CountOfT(a.Ti, CountOfSpecies(a.ion_species)), CountOfVel(a.ion_vel, a.ifract)}

\* the counts given by efract, Te and electron_vel
ElectronCounts(a) ==
    {CountOfFract(a.efract), CountOfT(a.Te, CountOfFract(a.efract)),
     CountOfVel(a.electron_vel, a.efract)}

\* the species are given and both temperatures have an accepted length
TemperaturesAccepted(a) ==
    /\ CountOfSpecies(a.ion_species) > 0
    /\ Len(a.Te) \in {1, CountOfFract(a.efract)}
    /\ Len(a.Ti) \in {1, CountOfSpecies(a.ion_species)}

\* C13: spectral_density fails with a ValueError whenever the counts of
\* ifract, ion_species, Ti (after the broadcast of a single value) and ion_vel
\* do not all agree, or those of efract, Te and electron_vel do not all agree;
\* a call that returns a result has equal ion counts and equal electron counts
\* and computes from that many populations.  When the temperatures are accepted
\* the failure is the one of the ion check, or, with agreeing ion counts, the
\* one of the electron check.
C13_CountsAgreeOrFail ==
    Called("spectral_density") =>
        /\ (Cardinality(IonCounts(args)) > 1 \/ Cardinality(ElectronCounts(args)) > 1) =>
               out.exc.err = "ValueError" /\ out.result = NoSpectrum
        /\ out.exc = NoError =>
               /\ Cardinality(IonCounts(args)) = 1
               /\ Cardinality(ElectronCounts(args)) = 1
               /\ IonCounts(args) = {Len(out.result.ions)}
               /\ ElectronCounts(args) = {Len(out.result.electrons)}
        /\ (TemperaturesAccepted(args) /\ Cardinality(IonCounts(args)) > 1) =>
               out.exc = Raise("ValueError", "ion_counts")
        /\ (TemperaturesAccepted(args) /\ Cardinality(IonCounts(args)) = 1
                /\ Cardinality(ElectronCounts(args)) > 1) =>
               out.exc = Raise("ValueError", "electron_counts")

\* two ion fractions with one species and one ion temperature: the ion check
\* has failed
C13_Witness ==
    /\ Called("spectral_density")
    /\ ~args.ifract.none /\ Len(args.ifract.v) = 2
    /\ args.ion_species.list /\ Len(args.ion_species.items) = 1
    /\ Len(args.Ti) = 1 /\ Len(args.Te) = 1
    /\ out.exc = Raise("ValueError", "ion_counts")
    /\ out.result = NoSpectrum

\* C14: the message of a failed ion check reports the observed count of each
\* of ifract, ion_species, Ti and ion_vel, and the message of a failed
\* electron check the observed count of each of efract, Te and electron_vel.
C14_MessageReportsCounts ==
    Called("spectral_density") =>
        /\ out.exc.site = "ion_counts" =>
               /\ out.msg.ifract = ShownNumber(CountOfFract(args.ifract))
               /\ out.msg.ion_species = ShownNumber(CountOfSpecies(args.ion_species))
               /\ out.msg.Ti = ShownNumber(CountOfT(args.Ti, CountOfSpecies(args.ion_species)))
               /\ out.msg.ion_vel = ShownNumber(CountOfVel(args.ion_vel, args.ifract))
        /\ out.exc.site = "electron_counts" =>
               /\ out.msg.efract = ShownNumber(CountOfFract(args.efract))
               /\ out.msg.Te = ShownNumber(CountOfT(args.Te, CountOfFract(args.efract)))
               /\ out.msg.electron_vel = ShownNumber(CountOfVel(args.electron_vel, args.efract))

\* the message of a temperature array of an unaccepted length
GotExpected(got, expected) ==
    [got |-> ShownNumber(got), expected |-> ShownNumber(expected)]

\* the temperature population i is computed with: the single value, or entry i
BroadcastAt(T, i) == IF Len(T) = 1 THEN T[1] ELSE T[i]

\* C15: Te is accepted when it holds one value, then used for every electron
\* population, or one value per electron population, and Ti likewise for the
\* ion populations; a Te or Ti of another length makes spectral_density fail
\* with a ValueError, which (the species given) reports the actual and the
\* expected count: of Te first, and of Ti when Te is accepted.
C15_TemperatureLengths ==
    Called("spectral_density") =>
        /\ (Len(args.Te) \notin {1, CountOfFract(args.efract)}
                \/ Len(args.Ti) \notin {1, CountOfSpecies(args.ion_species)}) =>
               out.exc.err = "ValueError" /\ out.result = NoSpectrum
        /\ (CountOfSpecies(args.ion_species) > 0
                /\ Len(args.Te) \notin {1, CountOfFract(args.efract)}) =>
               /\ out.exc = Raise("ValueError", "Te")
               /\ out.msg = GotExpected(Len(args.Te), CountOfFract(args.efract))
        /\ (CountOfSpecies(args.ion_species) > 0
                /\ Len(args.Te) \in {1, CountOfFract(args.efract)}
                /\ Len(args.Ti) \notin {1, CountOfSpecies(args.ion_species)}) =>
               /\ out.exc = Raise("ValueError", "Ti")
               /\ out.msg = GotExpected(Len(args.Ti), CountOfSpecies(args.ion_species))
        /\ Len(args.Te) \in {1, CountOfFract(args.efract)} => out.exc.site # "Te"
        /\ Len(args.Ti) \in {1, CountOfSpecies(args.ion_species)} => out.exc.site # "Ti"
        /\ out.exc = NoError =>
               /\ \A i \in 1..Len(out.result.electrons) :
                      out.result.electrons[i].T = BroadcastAt(args.Te, i)
               /\ \A i \in 1..Len(out.result.ions) :
                      out.result.ions[i].T = BroadcastAt(args.Ti, i)

\* three electron temperatures for two electron populations
C15_Witness ==
    /\ Called("spectral_density")
    /\ Len(args.Te) = 3 /\ ~args.efract.none /\ Len(args.efract.v) = 2
    /\ CountOfSpecies(args.ion_species) = 2
    /\ out.exc = Raise("ValueError", "Te")
    /\ out.msg = GotExpected(3, 2)

\* C16: an empty ion_species list makes spectral_density fail with the
\* ValueError of the species conditioning, whatever the other arguments are;
\* a single identity (a string or a Particle) has the outcome of the list of
\* that one identity.
C16_SpeciesEmptyOrSingle ==
    Called("spectral_density") =>
        /\ (args.ion_species.list /\ Len(args.ion_species.items) = 0) =>
               /\ out.exc = Raise("ValueError", "ion_species")
               /\ out.result = NoSpectrum
        /\ ~args.ion_species.list =>
               out = Left_spectral_density(
                         spectral_density(args.Te, args.Ti, args.efract, args.ifract,
                                          List(<<args.ion_species.one>>),
                                          args.electron_vel, args.ion_vel))

\* an empty list, with three electron temperatures for two electron
\* populations: the failure is that of the species
C16_Witness ==
    /\ Called("spectral_density")
    /\ args.ion_species = List(<<>>)
    /\ Len(args.Te) = 3 /\ ~args.efract.none /\ Len(args.efract.v) = 2
    /\ out.exc = Raise("ValueError", "ion_species")

\* every population of the sequence has zero drift
ZeroDrift(populations) == \A i \in 1..Len(populations) : populations[i].vel = ZeroRow

\* C17: with efract (ifract) omitted spectral_density uses one population of
\* fraction 1 for that kind, whatever the number of temperatures or species:
\* a result has that one population, more than one electron temperature is
\* told that 1 was expected, and more than one species meets the one-entry
\* array in the ion check.  With electron_vel (ion_vel) omitted it uses one
\* zero 3-vector per entry of efract (ifract): a result has zero drift for as
\* many populations as fractions, and a failed check counts as many velocity
\* rows as fractions.
C17_Defaults ==
    Called("spectral_density") =>
        /\ (args.efract.none /\ out.exc = NoError) =>
               /\ Len(out.result.electrons) = 1
               /\ out.result.electrons[1].fract = 100
        /\ (args.ifract.none /\ out.exc = NoError) =>
               /\ Len(out.result.ions) = 1
               /\ out.result.ions[1].fract = 100
        /\ (args.efract.none /\ CountOfSpecies(args.ion_species) > 0 /\ Len(args.Te) > 1) =>
               /\ out.exc = Raise("ValueError", "Te")
               /\ out.msg.expected = ShownNumber(1)
        /\ (args.ifract.none /\ TemperaturesAccepted(args)
                /\ CountOfSpecies(args.ion_species) > 1) =>
               /\ out.exc = Raise("ValueError", "ion_counts")
               /\ out.msg.ifract = ShownArray(<<100>>)
        /\ (args.electron_vel.none /\ out.exc = NoError) =>
               /\ ZeroDrift(out.result.electrons)
               /\ Len(out.result.electrons) = CountOfFract(args.efract)
        /\ (args.ion_vel.none /\ out.exc = NoError) =>
               /\ ZeroDrift(out.result.ions)
               /\ Len(out.result.ions) = CountOfFract(args.ifract)
        /\ (args.electron_vel.none /\ out.exc.site = "electron_counts") =>
               out.msg.electron_vel = ShownNumber(CountOfFract(args.efract))
        /\ (args.ion_vel.none /\ out.exc.site = "ion_counts") =>
               out.msg.ion_vel = ShownNumber(CountOfFract(args.ifract))

\* efract and both velocities omitted, two ion fractions and two species: one
\* electron population of fraction 1 and two ion populations, all at rest
C17_Witness ==
    /\ Called("spectral_density") /\ out.exc = NoError
    /\ args.efract.none /\ args.electron_vel.none /\ args.ion_vel.none
    /\ ~args.ifract.none /\ Len(args.ifract.v) = 2
    /\ Len(out.result.electrons) = 1
    /\ out.result.electrons[1].fract = 100 /\ out.result.electrons[1].vel = ZeroRow
    /\ Len(out.result.ions) = 2
    /\ out.result.ions[1].vel = ZeroRow /\ out.result.ions[2].vel = ZeroRow

\* the fractions, drifts, temperatures and species a result was computed from
FractsOf(populations) == [i \in 1..Len(populations) |-> populations[i].fract]

VelsOf(populations) == [i \in 1..Len(populations) |-> populations[i].vel]

TsOf(populations) == [i \in 1..Len(populations) |-> populations[i].T]

SymbolsOf(species) == [i \in 1..Len(species) |-> species[i].symbol]

\* the identities the caller gave, as a sequence
GivenSpecies(ion_species) ==
    IF ion_species.list THEN ion_species.items ELSE <<ion_species.one>>

\* C18: a call of spectral_density, impact_parameter or Coulomb_logarithm
\* that fails leaves no number with its caller (no populations to compute
\* alpha and Skw from, no bmin, bmax or ln_Lambda), and an unknown method is an
\* error; a call of spectral_density that returns has computed from the
\* arguments as they were given: every fraction, drift, species and
\* temperature array given is used entry by entry, and only an omitted
\* fraction or velocity and a single temperature are filled in.
C18_FailsWithoutResult ==
    (pc = "returned" /\ fn \in {"spectral_density", "impact_parameter", "Coulomb_logarithm"}) =>
        /\ out.exc.err # "none" => NothingComputed
        /\ (IsCoulomb(args) /\ args.method \in UnknownMethods) => out.exc.err # "none"
        /\ (IsThomson(args) /\ out.exc = NoError) =>
               /\ ~args.efract.none => FractsOf(out.result.electrons) = args.efract.v
               /\ ~args.ifract.none => FractsOf(out.result.ions) = args.ifract.v
               /\ ~args.electron_vel.none =>
                      VelsOf(out.result.electrons) = args.electron_vel.v
               /\ ~args.ion_vel.none => VelsOf(out.result.ions) = args.ion_vel.v
               /\ Len(args.Te) > 1 => TsOf(out.result.electrons) = args.Te
               /\ Len(args.Ti) > 1 => TsOf(out.result.ions) = args.Ti
               /\ SymbolsOf([i \in 1..Len(out.result.ions) |-> out.result.ions[i].species])
                      = SymbolsOf(GivenSpecies(args.ion_species))

\* two ion drifts given for one ion fraction and one species: the call has
\* failed and left nothing
C18_Witness ==
    /\ Called("spectral_density")
    /\ ~args.ion_vel.none /\ Len(args.ion_vel.v) = 2
    /\ ~args.ifract.none /\ Len(args.ifract.v) = 1
    /\ CountOfSpecies(args.ion_species) = 1
    /\ out.exc = Raise("ValueError", "ion_counts")
    /\ out.result = NoSpectrum

\* C19: no call alters its caller's inputs: over a call of spectral_density,
\* whether it returns or fails, the caller's ion_species holds the same
\* entries as before (a string token is not replaced by its Particle), and
\* over a call of a collision function the caller's V holds its entries,
\* the not-a-number ones included.
C19_InputsUnaltered ==
    [][pc' = "returned" =>
           /\ IsThomson(args) => args'.ion_species = args.ion_species
           /\ IsCoulomb(args) => args'.V = args.V]_vars

\* the arguments a as a first call receives them: an omitted V is the default
\* of the signature, a not-a-number scalar
FirstPassed(a) == [a EXCEPT !.V = IF a.V = Omitted THEN PristineV ELSE a.V]

\* the outcome of f on the argument values a when no call came before
FirstCallOutcome(f, a) ==
    CASE f = "impact_parameter"      -> Outcome_impact_parameter(FirstPassed(a))
      [] f = "impact_parameter_perp" -> Outcome_impact_parameter_perp(FirstPassed(a))
      [] f = "Coulomb_logarithm"     -> Outcome_Coulomb_logarithm(FirstPassed(a))
      [] f = "spectral_density"      ->
             Left_spectral_density(
                 spectral_density(a.Te, a.Ti, a.efract, a.ifract, a.ion_species,
                                  a.electron_vel, a.ion_vel))

\* C20: whatever calls came before, successful or failed, on the same
\* argument objects or not, a call has the outcome (the same result or the
\* same error) a first call with its argument values has; the default V of
\* the signatures stays the not-a-number scalar; and a call repeated on the
\* objects of the call before it has the outcome of that call.
C20_HistoryIndependent ==
    /\ [](IsCoulomb(args) => args.default_V = PristineV)
    /\ [][pc' = "returned" =>
              /\ out' = FirstCallOutcome(fn', args)
              /\ (pc = "returned" /\ fn' = fn) => out' = out]_vars

\* an array V whose first entry an earlier call filled with the thermal speed
\* of the temperature of then (1), passed again after T was bound to 16: the
\* call has the outcome of a first call with these values
C20_Witness ==
    /\ Called("impact_parameter")
    /\ args.V # Omitted /\ args.V.arr /\ args.V.v = <<Num(1), Num(2)>>
    /\ args.T = Scalar(16)
    /\ args.default_V = PristineV
    /\ out.exc = NoError
    /\ out = Outcome_impact_parameter(FirstPassed(args))

\* ==================================== spectral_density: plasma parameters
\* The direction vectors have integer components.  A real 3-vector parallel
\* to one of them is carried exactly, as its direction (the integer vector
\* with coprime components) and its squared length; a cosine is carried as
\* its sign and its square, a fraction in lowest terms.

Abs(x) == IF x < 0 THEN -x ELSE x

RECURSIVE Gcd(_, _)
Gcd(a, b) == IF b = 0 THEN a ELSE Gcd(b, a % b)

\* np.dot of two 3-vectors
Dot(u, v) == u[1] * v[1] + u[2] * v[2] + u[3] * v[3]

\* the integer vector of coprime components along v
Direction(v) ==
    [i \in 1..3 |-> v[i] \div Gcd(Gcd(Abs(v[1]), Abs(v[2])), Abs(v[3]))]

\* the array a caller passes as probe_vec or scatter_vec
Vector(v) == [dir |-> Direction(v), len2 |-> Dot(v, v)]

\* a variant of Normalized: the vector is used as given
NotNormalized(x) == x

\* x / np.linalg.norm(x): the direction is kept and the squared length is
\* divided by the squared norm
Normalized(x) == [dir |-> x.dir, len2 |-> x.len2 \div x.len2]

\* a fraction in lowest terms
Fraction(num, den) == [num |-> num \div Gcd(num, den), den |-> den \div Gcd(num, den)]

\* np.dot(probe_vec, scatter_vec), the cosine of the scattering angle
CosineOf(p, s) ==
    [sign   |-> IF Dot(p.dir, s.dir) > 0 THEN 1 ELSE IF Dot(p.dir, s.dir) < 0 THEN -1 ELSE 0,
     square |-> Fraction(Dot(p.dir, s.dir) * Dot(p.dir, s.dir) * p.len2 * s.len2,
                         Dot(p.dir, p.dir) * Dot(s.dir, s.dir))]

\* what alpha and Skw take from the two vectors: the scattering angle (k) and
\* k_vec = scatter_vec - probe_vec
ScatteringGeometry(p, s) == [cos |-> CosineOf(p, s), k_vec |-> [plus |-> s, minus |-> p]]

\* particles.Particle.charge_number
charge_number(ion) == CASE ion.symbol = "H+" -> 1 [] ion.symbol = "He-4 2+" -> 2

RECURSIVE SumOf(_)
SumOf(s) == IF Len(s) = 0 THEN 0 ELSE s[1] + SumOf(Tail(s))

\* zbar = np.sum(ifract * ion_z), in percent
zbarOf(ions) == SumOf([j \in 1..Len(ions) |-> ions[j].fract * charge_number(ions[j].species)])

\* ne = efract * n, in percent of a particle
neOf(electrons, n) == [i \in 1..Len(electrons) |-> electrons[i].fract * n]

\* a variant of niOf: the division by zbar left out
niOfWithoutZbar(ions, n, zbar) ==
    [j \in 1..Len(ions) |-> [num |-> ions[j].fract * n, den |-> 100]]

\* ni = ifract * n / zbar, each element as the fraction num / den
niOf(ions, n, zbar) == [j \in 1..Len(ions) |-> [num |-> ions[j].fract * n, den |-> zbar]]

NoGeometry == [cos |-> [sign |-> 0, square |-> [num |-> 0, den |-> 1]], k_vec |-> <<>>]

NoDensities == [zbar |-> 0, ne |-> <<>>, ni |-> <<>>]

\* the densities of the populations
DensitiesOf(result, n) ==
    [zbar |-> zbarOf(result.ions), ne |-> neOf(result.electrons, n),
     ni |-> niOf(result.ions, n, zbarOf(result.ions))]

\* spectral_density from the normalisation of its vectors on; r is what the
\* conditioning of the arguments gave
sd_plasma(r, n, probe_vec, scatter_vec) ==
    IF r.exc # NoError
    THEN [exc |-> r.exc, msg |-> r.msg, result |-> r.result,
          geometry |-> NoGeometry, densities |-> NoDensities]
    ELSE [exc |-> NoError, msg |-> r.msg, result |-> r.result,
          geometry  |-> ScatteringGeometry(Normalized(probe_vec), Normalized(scatter_vec)),
          densities |-> DensitiesOf(r.result, n)]

\* what a call of spectral_density with the arguments a leaves
Outcome_spectral_density(a) ==
    sd_plasma(spectral_density(a.Te, a.Ti, a.efract, a.ifract, a.ion_species,
                               a.electron_vel, a.ion_vel),
              a.n, Vector(a.probe_vec), Vector(a.scatter_vec))

\* ---------------------------------------------------------------- inputs
\* None, or fractions in percent that sum to 100
UnitFractions == {None, Some(<<100>>), Some(<<50, 50>>), Some(<<25, 75>>)}

IonIdentities == {Token("H+"), Token("He-4 2+")}

PlasmaSpecies ==
    {One(Token("H+"))} \cup {List(s) : s \in UNION {[1..k -> IonIdentities] : k \in 1..2}}

\* nonzero vectors, some of them multiples of others
Vectors == {<<1, 0, 0>>, <<2, 0, 0>>, <<0, 1, 0>>, <<0, 3, 0>>, <<1, 1, 0>>, <<2, 2, 0>>}

Densities == {4, 6}

PlasmaArgs ==
    [Te : {<<10>>, <<10, 20>>}, Ti : {<<10>>, <<10, 20>>},
     efract : UnitFractions, ifract : UnitFractions, ion_species : PlasmaSpecies,
     electron_vel : {None}, ion_vel : {None},
     n : Densities, probe_vec : Vectors, scatter_vec : Vectors]

InitPlasma ==
    /\ pc = "idle"
    /\ fn = "none"
    /\ args \in PlasmaArgs
    /\ out = NothingYet

Call_spectral_density ==
    /\ pc = "idle"
    /\ "probe_vec" \in DOMAIN args
    /\ out' = Outcome_spectral_density(args)
    /\ \E r \in {spectral_density(args.Te, args.Ti, args.efract, args.ifract,
                                  args.ion_species, args.electron_vel, args.ion_vel)} :
          args' = [args EXCEPT !.ion_species = SpeciesObjectAfter(@, r.ion_species)]
    /\ fn' = "spectral_density"
    /\ pc' = "returned"

NextPlasma == Call_spectral_density

SpecPlasma == InitPlasma /\ [][NextPlasma]_vars

\* the vector a * v
Scaled(a, v) == [i \in 1..3 |-> a * v[i]]

\* positive factors
Factors == 1..3

\* C21: spectral_density is invariant under a positive rescaling of its
\* direction vectors: for all positive factors a and b the call with
\* (a * probe_vec, b * scatter_vec) has the outcome of the call with
\* (probe_vec, scatter_vec), all other arguments equal.
C21_RescalingInvariant ==
    Called("spectral_density") =>
        \A a, b \in Factors :
            Outcome_spectral_density(
                [args EXCEPT !.probe_vec = Scaled(a, @), !.scatter_vec = Scaled(b, @)]) = out

\* the call with probe_vec = [2, 0, 0] has returned what the call with
\* [1, 0, 0] returns, the scattering being at a right angle
C21_Witness ==
    /\ Called("spectral_density") /\ out.exc = NoError
    /\ args.probe_vec = <<2, 0, 0>> /\ args.scatter_vec = <<0, 3, 0>>
    /\ out = Outcome_spectral_density([args EXCEPT !.probe_vec = <<1, 0, 0>>])
    /\ out.geometry.cos.sign = 0
    /\ out.geometry.k_vec.minus = [dir |-> <<1, 0, 0>>, len2 |-> 1]

\* the fractions given sum to 1
SumsToOne(fract) == fract.none \/ SumOf(fract.v) = 100

\* the sum of fractions of one denominator, as one fraction
SumOfFractions(s, den) == [num |-> SumOf([j \in 1..Len(s) |-> s[j].num]), den |-> den]

\* C22: for fractions that sum to 1 and positive ion charge numbers the
\* densities spectral_density derives are charge neutral: ne[i] is
\* efract[i] * n and the ne sum to n; ni[j] is ifract[j] * n / zbar with zbar
\* the sum of ifract[j] * Z_j, and the sum of ni[j] * Z_j is n.
C22_ChargeNeutral ==
    (Called("spectral_density") /\ out.exc = NoError
         /\ SumsToOne(args.efract) /\ SumsToOne(args.ifract)) =>
        /\ out.densities.zbar =
               SumOf([j \in 1..Len(out.result.ions) |->
                         out.result.ions[j].fract * charge_number(out.result.ions[j].species)])
        /\ \A i \in 1..Len(out.densities.ne) :
               out.densities.ne[i] = out.result.electrons[i].fract * args.n
        /\ SumOf(out.densities.ne) = 100 * args.n
        /\ \A j \in 1..Len(out.densities.ni) :
               out.densities.ni[j].num * out.densities.zbar
                   = out.result.ions[j].fract * args.n * out.densities.ni[j].den
        /\ LET charge_density ==
                   SumOfFractions(
                       [j \in 1..Len(out.densities.ni) |->
                           [num |-> out.densities.ni[j].num
                                        * charge_number(out.result.ions[j].species),
                            den |-> out.densities.ni[j].den]],
                       out.densities.zbar)
           IN  /\ \A j \in 1..Len(out.densities.ni) :
                      out.densities.ni[j].den = charge_density.den
               /\ charge_density.num * 100 = SumOf(out.densities.ne) * charge_density.den

\* a quarter of H+ and three quarters of He-4 2+ (zbar = 1.75), two electron
\* populations
C22_Witness ==
    /\ Called("spectral_density") /\ out.exc = NoError
    /\ args.ifract = Some(<<25, 75>>) /\ args.efract = Some(<<50, 50>>)
    /\ SymbolsOf(GivenSpecies(args.ion_species)) = <<"H+", "He-4 2+">>
    /\ args.n = 4
    /\ out.densities.zbar = 175
    /\ out.densities.ni = <<[num |-> 100, den |-> 175], [num |-> 300, den |-> 175]>>
    /\ out.densities.ne = <<200, 200>>

\* C23: with a hyperbolic method (hls_min_interp / GMS-4, hls_max_interp /
\* GMS-5, hls_full_interp / GMS-6) no element of the result of
\* Coulomb_logarithm is negative, bmax below bmin included.
C23_HyperbolicNotNegative ==
    (CalledCL /\ Succeeded /\ args.method \in HyperbolicMethods) =>
        \A i \in 1..Len(out.ln_Lambda.v) : out.ln_Lambda.v[i] >= 0

\* a hyperbolic method, bmax below bmin, and a result that is not negative
C23_Witness ==
    /\ CalledCL /\ Succeeded /\ args.method = "hls_min_interp"
    /\ Elem(IPOf(args).bmax2, 1) < Elem(IPOf(args).bmin2, 1)
    /\ out.ln_Lambda.v[1] >= 0
    /\ LinearAt(IPOf(args), 1) < 0

\* ------------------------------------------ calls for any species pair
\* pairs of resolvable particles: an electron with a proton, an electron with
\* a neutron
AnySpeciesPairs == {<<"e-", "p+">>, <<"e-", "n">>}

\* velocities that pass the checks of _boilerPlate: unset, or an ordinary speed
AcceptedV(N) ==
    {NoneV, SomeV(Scalar(NaN)), SomeV(Scalar(Num(2)))}
        \cup {SomeV(Array(s)) : s \in [1..N -> {NaN, Num(2)}]}

SpeciesArgs ==
    UNION {[T : Quantities(TValues, N), n_e : Quantities(NValues, N),
            species : AnySpeciesPairs, z_mean : {NaN, Num(1)}, V : AcceptedV(N),
            method : MethodNames] : N \in 1..MaxLen}

InitSpecies ==
    /\ pc = "idle"
    /\ fn = "none"
    /\ args \in SpeciesArgs
    /\ out = NoOutcome

Call_impact_parameter_perp ==
    /\ pc = "idle"
    /\ out' = Outcome_impact_parameter_perp(args)
    /\ fn' = "impact_parameter_perp"
    /\ pc' = "returned"
    /\ UNCHANGED args

NextSpecies == Call_impact_parameter \/ Call_impact_parameter_perp

SpecSpecies == InitSpecies /\ [][NextSpecies]_vars

\* C24: for every supported method and every input impact_parameter accepts
\* (any resolvable species pair, z_mean supplied where required) both
\* impact parameters returned are strictly positive in every element.
C24_ImpactParametersPositive ==
    (CalledIP /\ Succeeded) =>
        /\ \A i \in 1..Len(out.bmin2.v) : out.bmin2.v[i] > 0
        /\ \A i \in 1..Len(out.bmax2.v) : out.bmax2.v[i] > 0

\* ------------------------------------------- calls over a range of T
\* three temperatures, each four times the one before
TRising == {1, 4, 16}

NRising == {1, 8, 512}

TemperatureArgs ==
    UNION {[T : Quantities(TRising, N), n_e : Quantities(NRising, N),
            species : SpeciesPairs, z_mean : {NaN},
            V : {NoneV, SomeV(Scalar(NaN))},
            method : {"classical", "ls", "ls_min_interp"}] : N \in 1..MaxLen}

InitTemperature ==
    /\ pc = "idle"
    /\ fn = "none"
    /\ args \in TemperatureArgs
    /\ out = NoOutcome

NextTemperature == Call_impact_parameter \/ Call_Coulomb_logarithm

SpecTemperature == InitTemperature /\ [][NextTemperature]_vars

\* the temperatures of the shape of T that are lower than T in every element
LowerTemperatures(T) ==
    {q \in Quantities(TRising, Len(T.v)) :
        q.arr = T.arr /\ \A i \in 1..Len(T.v) : q.v[i] < T.v[i]}

\* C25: with the classical method, the species and the density fixed and V
\* left at its thermal default, Coulomb_logarithm is strictly increasing in
\* T: the result at T is greater, in every element, than the result at every
\* lower temperature.
C25_IncreasingInT ==
    (CalledCL /\ Succeeded /\ args.method \in {"classical", "ls"}) =>
        \A q \in LowerTemperatures(args.T) :
            LET lower == Coulomb_logarithm(q, args.n_e, args.species, args.z_mean,
                                           args.V, args.method)
            IN  /\ lower.exc = NoError
                /\ \A i \in 1..Len(out.ln_Lambda.v) :
                       Elem(lower.ln_Lambda, i) < out.ln_Lambda.v[i]

\* T = 16 at the density 8: the result is above those at T = 4 and at T = 1
C25_Witness ==
    /\ CalledCL /\ Succeeded /\ args.method = "classical"
    /\ args.T = Scalar(16) /\ args.n_e = Scalar(8)
    /\ Cardinality(LowerTemperatures(args.T)) = 2
    /\ Coulomb_logarithm(Scalar(4), args.n_e, args.species, args.z_mean, args.V,
                         args.method).ln_Lambda.v[1] < out.ln_Lambda.v[1]
    /\ Coulomb_logarithm(Scalar(1), args.n_e, args.species, args.z_mean, args.V,
                         args.method).ln_Lambda.v[1]
           < Coulomb_logarithm(Scalar(4), args.n_e, args.species, args.z_mean, args.V,
                               args.method).ln_Lambda.v[1]

\* <<bmin2, bmax2>> as the method of the call computes them, before the return
ComputedLengths(a) ==
    MethodTable(a.method, Debye_length2(a.T, a.n_e),
                lambdaBroglieOf(boilerPlate(a.T, a.species, a.V)),
                impact_parameter_perp(a.T, a.species, a.V).bPerp,
                IF isnan(a.z_mean) THEN NoValue ELSE Wigner_Seitz_radius2(a.n_e, a.z_mean))

\* C26: when the bmin impact_parameter computes is a scalar and bmax an
\* array of length L, the bmin returned is an array of length L whose every
\* element is that scalar; when bmin is an array and bmax a scalar, bmax is
\* returned as a scalar; when both are scalars or both arrays, both are
\* returned with their shapes unchanged.
C26_BminBroadcast ==
    (CalledIP /\ Succeeded) =>
        /\ (isscalar(ComputedLengths(args)[1]) /\ ~isscalar(ComputedLengths(args)[2])) =>
               /\ out.bmin2.arr
               /\ Len(out.bmin2.v) = Len(ComputedLengths(args)[2].v)
               /\ \A i \in 1..Len(out.bmin2.v) :
                      out.bmin2.v[i] = ComputedLengths(args)[1].v[1]
               /\ out.bmax2 = ComputedLengths(args)[2]
        /\ (~isscalar(ComputedLengths(args)[1]) /\ isscalar(ComputedLengths(args)[2])) =>
               /\ ~out.bmax2.arr /\ Len(out.bmax2.v) = 1
               /\ out.bmax2 = ComputedLengths(args)[2]
               /\ out.bmin2 = ComputedLengths(args)[1]
        /\ (isscalar(ComputedLengths(args)[1]) <=> isscalar(ComputedLengths(args)[2])) =>
               /\ out.bmin2 = ComputedLengths(args)[1]
               /\ out.bmax2 = ComputedLengths(args)[2]

\* a scalar T and V with an array density of two entries: the scalar bmin is
\* returned twice
C26_Witness ==
    /\ CalledIP /\ Succeeded
    /\ ~args.T.arr /\ ~args.V.arr /\ args.n_e.arr /\ Len(args.n_e.v) = 2
    /\ ~ComputedLengths(args)[1].arr
    /\ out.bmin2.arr /\ Len(out.bmin2.v) = 2 /\ out.bmin2.v[1] = out.bmin2.v[2]
    /\ out.bmax2.arr /\ out.bmax2.v[1] # out.bmax2.v[2]

\* the V given holds a zero
GivenZero(a) == ~a.V.none /\ \E i \in 1..Len(a.V.v) : ~a.V.v[i].nan /\ a.V.v[i].x = 0

\* the V given holds a speed of c or more
GivenRelativistic(a) == ~a.V.none /\ \E i \in 1..Len(a.V.v) : ~a.V.v[i].nan /\ a.V.v[i].x >= c

\* C28: in impact_parameter, and so in Coulomb_logarithm, the velocity checks
\* come first: a call whose V holds a zero fails with the zero-velocity
\* PhysicsError also when its method is unknown or the z_mean it requires is
\* missing, and the errors of a missing z_mean and of an unknown method are
\* raised only for calls whose V passes the zero and the relativistic check.
C28_VelocityChecksFirst ==
    Returned =>
        /\ GivenZero(args) => out.exc = Raise("PhysicsError", "zero_velocity")
        /\ (~GivenZero(args) /\ GivenRelativistic(args)) =>
               out.exc = Raise("RelativityError", "relativistic")
        /\ out.exc.err = "ValueError" =>
               /\ ~GivenZero(args) /\ ~GivenRelativistic(args)
               /\ boilerPlate(args.T, args.species, args.V).exc = NoError

\* a zero velocity, an unknown method and no z_mean: the zero-velocity error
C28_Witness ==
    /\ CalledIP
    /\ args.V = SomeV(Scalar(Num(0)))
    /\ args.method \in UnknownMethods /\ isnan(args.z_mean)
    /\ out.exc = Raise("PhysicsError", "zero_velocity")

\* the methods that do not require z_mean
WithoutZMean == {"classical", "ls", "ls_min_interp", "GMS-1", "ls_clamp_mininterp", "GMS-3",
                 "hls_min_interp", "GMS-4"}

\* what the call that was made leaves for the arguments a
OutcomeOfCall(a) ==
    IF fn = "impact_parameter" THEN Outcome_impact_parameter(a)
                               ELSE Outcome_Coulomb_logarithm(a)

\* C29: for the methods that do not require z_mean (classical / ls,
\* ls_min_interp / GMS-1, ls_clamp_mininterp / GMS-3, hls_min_interp / GMS-4)
\* the outcome of impact_parameter and of Coulomb_logarithm does not depend on
\* z_mean: the call with any other z_mean, unset or supplied, leaves the same
\* (bmin, bmax), the same ln_Lambda, the same warning and the same error.
C29_ZMeanIgnored ==
    (Returned /\ args.method \in WithoutZMean) =>
        \A z \in ZMeanValues : OutcomeOfCall([args EXCEPT !.z_mean = z]) = out

\* hls_min_interp with z_mean = 8 has left the result of the call without
\* z_mean
C29_Witness ==
    /\ CalledCL /\ Succeeded /\ args.method = "hls_min_interp"
    /\ args.z_mean = Num(8)
    /\ out = Outcome_Coulomb_logarithm([args EXCEPT !.z_mean = NaN])

\* =================================================== coupling_parameter
\* The coupling is carried as the pair of the Coulomb energy and the kinetic
\* energy it is the quotient of.  The quantum kinetic energy comes from
\* collaborators (thermal_deBroglie_wavelength, chemical_potential,
\* Fermi_integral) and is carried as the T and n_e it is computed from.

\* coupling_parameter left by an exception
coupling_parameter_failed(exc) == [exc |-> exc, coupling |-> NoValue]

\* Z = (Z1 + Z2) / 2 of the charge numbers of the pair (whole for the pairs of
\* the model), used when z_mean is not given
MeanChargeOf(species, z_mean) ==
    IF isnan(z_mean) THEN Num((charge(species[1]) + charge(species[2])) \div 2) ELSE z_mean

\* coulomb_energy: charges[0] * charges[1] / (4 pi eps0 radius) without a
\* z_mean, (z_mean * e) ** 2 / (4 pi eps0 radius) with one; radius2 is the
\* squared Wigner-Seitz radius
coulomb_energyOf(charges, z_mean, radius2) ==
    LET without(r2) == (CoulombK * charges[1] * charges[2]) \div Isqrt(r2)
        with(r2)    == (CoulombK * z_mean.x * z_mean.x) \div Isqrt(r2)
    IN  IF isnan(z_mean) THEN Map1(without, radius2) ELSE Map1(with, radius2)

\* k_B * T
ClassicalKinetic(t) == [quantum |-> FALSE, kT |-> t, n_e |-> 0]

\* 2 * k_B * T / ((n_e * lambda_deBroglie ** 3) * fermi_integral), taken as
\* real (the raise for an imaginary value is marked unreachable in the source)
QuantumKinetic(t, n) == [quantum |-> TRUE, kT |-> t, n_e |-> n]

\* coulomb_energy / kinetic_energy
Over(x, y) == [num |-> x, den |-> y]

\* the method dispatch of coupling_parameter and its return
coupling_parameter_return(method, T, n_e, coulomb_energy) ==
    IF method = "classical"
    THEN [exc |-> NoError,
          coupling |-> Map2(Over, coulomb_energy, Map1(ClassicalKinetic, T))]
    ELSE IF method = "quantum"
    THEN [exc |-> NoError,
          coupling |-> Map2(Over, coulomb_energy, Map2(QuantumKinetic, T, n_e))]
    ELSE coupling_parameter_failed(Raise("ValueError", "method"))

\* coupling_parameter after its call of _boilerPlate, which gave b
coupling_parameter_body(b, T, n_e, species, z_mean, method) ==
    IF b.exc.err # "none" THEN coupling_parameter_failed(b.exc)
    ELSE coupling_parameter_return(
             method, T, n_e,
             coulomb_energyOf(b.charges, z_mean,
                              Wigner_Seitz_radius2(n_e, MeanChargeOf(species, z_mean))))

coupling_parameter(T, n_e, species, z_mean, V, method) ==
    coupling_parameter_body(boilerPlate(T, species, V), T, n_e, species, z_mean, method)

\* the methods of coupling_parameter's own dispatch
CouplingMethods == {"classical", "quantum"}

CouplingArgs ==
    UNION {[T : Quantities(TValues, N), n_e : Quantities(NValues, N),
            species : SpeciesPairs, z_mean : ZMeanValues,
            V : AcceptedV(N) \cup {SomeV(Scalar(Num(0)))},
            method : MethodNames \cup {"ls", "quantum", "GMS-7"}] : N \in 1..MaxLen}

InitCoupling ==
    /\ pc = "idle"
    /\ fn = "none"
    /\ args \in CouplingArgs
    /\ out = NothingYet

Call_coupling_parameter ==
    /\ pc = "idle"
    /\ out' = coupling_parameter(args.T, args.n_e, args.species, args.z_mean, args.V, args.method)
    /\ fn' = "coupling_parameter"
    /\ pc' = "returned"
    /\ UNCHANGED args

NextCoupling == Call_coupling_parameter

SpecCoupling == InitCoupling /\ [][NextCoupling]_vars

\* C27: coupling_parameter accepts as method the classical method
\* ("classical" or "ls") and the 6 other methods of the Coulomb logarithm
\* ("ls_min_interp", "ls_full_interp", "ls_clamp_mininterp", "hls_min_interp",
\* "hls_max_interp", "hls_full_interp") and returns a coupling value for each.
C27_CouplingMethodsAccepted ==
    (Called("coupling_parameter") /\ args.method \in MethodNames \cup {"ls"}
         /\ boilerPlate(args.T, args.species, args.V).exc = NoError) =>
        /\ out.exc = NoError
        /\ Len(out.coupling.v) >= 1
        /\ \A i \in 1..Len(out.coupling.v) : out.coupling.v[i].num > 0

\* ================================================== collision_frequency
\* The frequency is carried in units that take pi and the half units of
\* ln_Lambda in; printed is what the call has written to standard output.

NothingPrinted == <<>>

\* print(T, n, species, z_mean, method)
PrintedLine(T, n, species, z_mean, method) ==
    <<[T |-> T, n |-> n, species |-> species, z_mean |-> z_mean, method |-> method]>>

\* collision_frequency left by an exception
collision_frequency_failed(exc, printed) ==
    [exc |-> exc, freq |-> NoValue, warning |-> "none", printed |-> printed]

\* species[i] in ("e", "e-")
IsElectron(p) == p \in {"e", "e-"}

Times(x, y) == x * y

\* Coulomb_cross_section(impact_param) = pi * (2 * impact_param) ** 2
Coulomb_cross_section(impact_param) ==
    LET sigma(b) == 4 * b * b IN Map1(sigma, impact_param)

\* the value of a velocity that is a number
SpeedOf(V) == LET x(e) == e.x IN Map1(x, V)

\* freq = n * sigma * V * cou_log, and the return; cl is what
\* Coulomb_logarithm gave
collision_frequency_return(n, bPerp, V, cl, printed) ==
    IF cl.exc.err # "none" THEN collision_frequency_failed(cl.exc, printed)
    ELSE [exc     |-> NoError,
          freq    |-> Map2(Times, Map2(Times, Map2(Times, n, Coulomb_cross_section(bPerp)),
                                       SpeedOf(V)),
                           cl.ln_Lambda),
          warning |-> cl.warning,
          printed |-> printed]

\* the Coulomb logarithm for the velocity V of the branch, then the frequency
collision_frequency_branch(T, n, species, z_mean, method, V, bPerp, printed) ==
    collision_frequency_return(
        n, bPerp, V, Coulomb_logarithm(T, n, species, z_mean, SomeV(V), method), printed)

\* bPerp * reduced_mass / m_e
CorrectedToElectronMass(bPerp, mu) ==
    LET corrected(b) == (b * mu) \div mass("e-") IN Map1(corrected, bPerp)

\* collision_frequency after its call of _boilerPlate, which gave b: the
\* branches of the electron-electron, the electron-ion and any other pair
collision_frequency_body(b, T, n, species, z_mean, V, method) ==
    IF b.exc.err # "none" THEN collision_frequency_failed(b.exc, NothingPrinted)
    ELSE IF IsElectron(species[1]) /\ IsElectron(species[2])
    THEN collision_frequency_branch(
             T, n, species, z_mean, method,
             replaceNanVwithThermalV(V, T, b.reduced_mass).V,
             impact_parameter_perp(T, species, SomeV(b.V)).bPerp,
             PrintedLine(T, n, species, z_mean, method))
    ELSE IF IsElectron(species[1]) \/ IsElectron(species[2])
    THEN collision_frequency_branch(
             T, n, species, z_mean, method,
             replaceNanVwithThermalV(V, T, mass("e-")).V,
             CorrectedToElectronMass(
                 impact_parameter_perp(
                     T, species, SomeV(replaceNanVwithThermalV(V, T, mass("e-")).V)).bPerp,
                 b.reduced_mass),
             NothingPrinted)
    ELSE collision_frequency_branch(
             T, n, species, z_mean, method,
             replaceNanVwithThermalV(V, T, b.reduced_mass).V,
             impact_parameter_perp(
                 T, species, SomeV(replaceNanVwithThermalV(V, T, b.reduced_mass).V)).bPerp,
             NothingPrinted)

collision_frequency(T, n, species, z_mean, V, method) ==
    collision_frequency_body(boilerPlate(T, species, V), T, n, species, z_mean, V, method)

\* ---------------------------------------------------------------- inputs
\* two electrons, an electron and a proton, two positrons (a pair without an
\* electron, of a mass the units of the model can carry)
FrequencyPairs == {<<"e-", "e-">>, <<"e-", "p+">>, <<"e+", "e+">>}

\* temperatures at which the thermal speed of the pair is a whole number
TemperaturesOf(species) == IF species = <<"e-", "p+">> THEN {1, 16} ELSE {2, 8}

FrequencyArgs ==
    UNION {[T : Quantities(TemperaturesOf(pair), N), n : Quantities(NValues, N),
            species : {pair}, z_mean : {NaN, Num(1)},
            V : AcceptedV(N) \cup {SomeV(Scalar(Num(0)))},
            method : MethodNames \cup {"GMS-7"}] : N \in 1..MaxLen, pair \in FrequencyPairs}

InitFrequency ==
    /\ pc = "idle"
    /\ fn = "none"
    /\ args \in FrequencyArgs
    /\ out = NothingYet

Call_collision_frequency ==
    /\ pc = "idle"
    /\ out' = collision_frequency(args.T, args.n, args.species, args.z_mean, args.V,
                                  args.method)
    /\ fn' = "collision_frequency"
    /\ pc' = "returned"
    /\ UNCHANGED args

NextFrequency == Call_collision_frequency

SpecFrequency == InitFrequency /\ [][NextFrequency]_vars

\* C30: collision_frequency prints nothing, for an electron-electron, an
\* electron-ion and an ion-ion pair alike: it leaves its frequency and the
\* warning of the Coulomb logarithm it has consumed, or its error, and nothing
\* else.
C30_NothingPrinted ==
    Called("collision_frequency") => out.printed = NothingPrinted

====
